---- MODULE Spec2Model ----
(***************************************************************************)
(* Model of the emergency routing back end.                                *)
(*                                                                         *)
(*   PathFinder (backend/utils/pathfinding.py): the facility registry, the *)
(*   road graph, and find_optimal_route with its ThreadPoolExecutor        *)
(*   fan-out / fan-in over the facilities of the matching type.            *)
(*                                                                         *)
(*   find_optimal_path (backend/api/detect_emergency_vehicles.py): the     *)
(*   self-contained grid router with its A* search, one loop iteration per *)
(*   step.  A priority g + sqrt(d2) is kept as the pair (g, d2) and        *)
(*   compared exactly.                                                     *)
(*                                                                         *)
(* Python values are encoded as follows.  None for a route is the empty    *)
(* sequence (a route returned by networkx always holds at least the source *)
(* node, so the truth value of a route is Len(route) > 0).  Dictionaries   *)
(* are functions with a string domain (records); the integer edge keys 0   *)
(* and 1 of a MultiDiGraph are written "0" and "1".  Floats are integers.  *)
(* A coordinate (lat, lon) is a position identifier; the coordinate of     *)
(* graph node n is position n.                                             *)
(***************************************************************************)
EXTENDS Integers, Sequences, FiniteSets, TLC

\* ------------------------------------------------------------------ bounds
\* Largest number of accepted registrations explored.
MaxRegs == 2

\* Number of threads calling find_optimal_route at the same time.
MaxCallers == 2

\* Number of pool threads inside VehicleDetector.detect_frame at the same
\* time (the pool has num_threads workers, 4 by default).
MaxWorkers == 2

\* self.max_cache_size (utils/detection.py line 40), scaled down from 1000.
max_cache_size == 2

\* Largest number of detections ImageDetector._get_best_detections is
\* given.
MaxDets == 3

\* Number of detect requests the API serves.
MaxRequests == 2

\* ------------------------------------------------------- the road network
\* The graph ox.graph_from_bbox returns for the modelled area: a
\* MultiDiGraph.  Node 5 has an outgoing edge only, so nothing reaches it.
Nodes == 1..5

\* Positions 1..5 are the coordinates of the nodes; position 6 is a point
\* off the network.
Positions == 1..6

\* osmid attribute values: a single id or a list of ids.
OsmId(i) == [is_list |-> FALSE, v |-> <<i>>]
OsmIdList(s) == [is_list |-> TRUE, v |-> s]
\* The default '' of d.get('osmid', ''): not a list, and no key of any
\* traffic-weight map.
OsmIdMissing == [is_list |-> FALSE, v |-> <<>>]

\* Edges as (u, v, key) with the attributes osmnx stores: length and osmid
\* from graph_from_bbox, travel_time from add_edge_travel_times.
GraphEdges ==
    { [u |-> 1, v |-> 2, key |-> "0", travel_time |-> 2, length |-> 10, osmid |-> OsmId(101)],
      [u |-> 2, v |-> 3, key |-> "0", travel_time |-> 2, length |-> 10, osmid |-> OsmId(102)],
      [u |-> 1, v |-> 3, key |-> "0", travel_time |-> 5, length |-> 12, osmid |-> OsmId(103)],
      [u |-> 1, v |-> 4, key |-> "0", travel_time |-> 3, length |-> 20, osmid |-> OsmIdList(<<104, 105>>)],
      [u |-> 1, v |-> 4, key |-> "1", travel_time |-> 9, length |-> 5,  osmid |-> OsmId(106)],
      [u |-> 3, v |-> 4, key |-> "0", travel_time |-> 1, length |-> 3,  osmid |-> OsmId(107)],
      [u |-> 5, v |-> 1, key |-> "0", travel_time |-> 4, length |-> 8,  osmid |-> OsmId(108)] }

\* The value of self._graph: "None" before any load, "raw" when line 35 has
\* assigned the downloaded graph and add_edge_speeds (line 44) then raised,
\* "timed" after lines 44-45 added the travel_time attribute.
GraphStates == {"None", "raw", "timed"}

\* Variant: the test of line 109 inverted.
GraphFalsy(g) == ~(g # "None" /\ Nodes # {})

\* `not self._graph`: None is falsy, and a networkx graph is falsy when it
\* has no nodes.
GraphTruthy(g) == g # "None" /\ Nodes # {}

\* The attribute dictionary of one edge in graph state g.
EdgeAttrs(e, g) ==
    IF g = "timed"
    THEN [travel_time |-> e.travel_time, length |-> e.length, osmid |-> e.osmid]
    ELSE [length |-> e.length, osmid |-> e.osmid]

\* G[u][v] / G.get_edge_data(u, v) of a MultiDiGraph: the dictionary from
\* edge key to attribute dictionary; the empty function when not adjacent.
get_edge_data(g, u, v) ==
    LET ks == { e.key : e \in { x \in GraphEdges : x.u = u /\ x.v = v } }
    IN [k \in ks |-> EdgeAttrs(CHOOSE e \in GraphEdges : e.u = u /\ e.v = v /\ e.key = k, g)]

\* dict.get(key, default)
DictGet(d, k, default) == IF k \in DOMAIN d THEN d[k] ELSE default

\* ox.nearest_nodes: the node closest to a coordinate.
NearestNodeOf == [p \in Positions |-> IF p = 6 THEN 1 ELSE p]

_get_nearest_node(p) == NearestNodeOf[p]

\* ------------------------------------------------------ traffic snapshots
\* The traffic_weights argument: None, or a dictionary osmid -> multiplier.
TrafficNone == [given |-> FALSE, w |-> <<>>]
TrafficDict(f) == [given |-> TRUE, w |-> f]

\* The snapshots explored: none, the empty dictionary, a jam on the edge
\* 1 -> 2 (osmid 101), and a jam on the listed edge 1 -> 4 (osmid 105).
TrafficSnapshots ==
    { TrafficNone,
      TrafficDict(<<>>),
      TrafficDict([k \in {101} |-> 10]),
      TrafficDict([k \in {105, 103} |-> 4]) }

\* `if traffic_weights:` a dictionary is truthy when it is not empty.
TrafficTruthy(tw) == tw.given /\ DOMAIN tw.w # {}

\* ------------------------------------------------------- route calculation
\* The first identifier of the list that has a weight, 0 when none has.
RECURSIVE FirstWeighted(_, _)
FirstWeighted(ids, tw) ==
    IF ids = <<>> THEN 0
    ELSE IF Head(ids) \in DOMAIN tw.w THEN Head(ids)
    ELSE FirstWeighted(Tail(ids), tw)

\* weight_func(u, v, d) of _calculate_route, closed over traffic_weights.
\* d is the dictionary networkx passes for the pair (u, v).
weight_func(u, v, d, traffic_weights) ==
    LET base_time == DictGet(d, "travel_time", 1)
        osm_id == DictGet(d, "osmid", OsmIdMissing)
    IN IF osm_id.is_list
       THEN LET oid == FirstWeighted(osm_id.v, traffic_weights)
            IN IF oid # 0 THEN base_time * traffic_weights.w[oid] ELSE base_time
       ELSE base_time *
            (IF osm_id.v # <<>> /\ osm_id.v[1] \in DOMAIN traffic_weights.w
             THEN traffic_weights.w[osm_id.v[1]] ELSE 1)

\* The weight argument handed to nx.shortest_path: the attribute name
\* 'travel_time', or weight_func when traffic_weights is truthy.
WeightArg(traffic_weights) ==
    IF TrafficTruthy(traffic_weights)
    THEN [callable |-> TRUE, traffic_weights |-> traffic_weights]
    ELSE [callable |-> FALSE, traffic_weights |-> TrafficNone]

SetMin(S) == CHOOSE x \in S : \A y \in S : x <= y

\* networkx's weight of the pair (u, v) during the search.  A callable is
\* called with the dictionary G[u][v], which in a MultiDiGraph maps the
\* edge keys to the attribute dictionaries; an attribute name is looked up
\* in every parallel edge (default 1) and the least value is used.
nx_edge_weight(g, weight, u, v) ==
    LET d == get_edge_data(g, u, v)
    IN IF weight.callable
       THEN weight_func(u, v, d, weight.traffic_weights)
       ELSE SetMin({ DictGet(d[k], "travel_time", 1) : k \in DOMAIN d })

Adjacent(u, v) == \E e \in GraphEdges : e.u = u /\ e.v = v

InRange(x, p) == \E i \in 1..Len(p) : p[i] = x

\* The simple paths of the graph, by number of nodes.
PathsOfLen[n \in 1..Cardinality(Nodes)] ==
    IF n = 1 THEN { <<s>> : s \in Nodes }
    ELSE { Append(pv[1], pv[2]) :
             pv \in { x \in PathsOfLen[n - 1] \X Nodes :
                        Adjacent(x[1][Len(x[1])], x[2]) /\ ~InRange(x[2], x[1]) } }

SimplePaths == UNION { PathsOfLen[n] : n \in 1..Cardinality(Nodes) }

RECURSIVE PathCost(_, _, _)
PathCost(g, weight, p) ==
    IF Len(p) <= 1 THEN 0
    ELSE nx_edge_weight(g, weight, p[1], p[2]) + PathCost(g, weight, Tail(p))

\* nx.shortest_path(G, source, target, weight): a path of least total
\* weight, the empty sequence standing for NetworkXNoPath.
nx_shortest_path(g, source, target, weight) ==
    LET cands == { p \in SimplePaths : p[1] = source /\ p[Len(p)] = target }
    IN IF cands = {} THEN <<>>
       ELSE CHOOSE p \in cands :
              \A q \in cands : PathCost(g, weight, p) <= PathCost(g, weight, q)

\* next(iter(edge_data)): networkx numbers parallel edges 0, 1, ... in
\* insertion order, so the first key of an existing pair is 0.
FirstKey(edge_data) == "0"

\* Lines 87-93: the length of the first parallel edge of every hop.
RECURSIVE RouteLength(_, _)
RouteLength(g, route) ==
    IF Len(route) <= 1 THEN 0
    ELSE LET edge_data == get_edge_data(g, route[1], route[2])
             key == FirstKey(edge_data)
         IN (IF DOMAIN edge_data # {} THEN DictGet(edge_data[key], "length", 0) ELSE 0)
            + RouteLength(g, Tail(route))

\* _calculate_route: (route, length), or (None, None) on NetworkXNoPath.
_calculate_route(g, start_node, end_node, traffic_weights) ==
    LET route == nx_shortest_path(g, start_node, end_node, WeightArg(traffic_weights))
    IN IF route = <<>> THEN [route |-> <<>>, length |-> 0]
       ELSE [route |-> route, length |-> RouteLength(g, route)]

\* The routes are a function of read-only data: computed once per input.
RouteTable ==
    [g \in GraphStates \ {"None"}, s \in Nodes, t \in Nodes, tw \in TrafficSnapshots |->
        _calculate_route(g, s, t, tw)]

\* ------------------------------------------------------------ the registry
\* The keys of self._emergency_locations (lines 22-26).
LocationTypes == {"hospital", "fire_station", "police_station"}

\* Location(name, lat, lon, type); (lat, lon) is a position.
Location(name, pos, type) == [name |-> name, pos |-> pos, type |-> type]

\* None where a Location is expected.
NoLocation == Location("None", 0, "None")

\* The facilities a caller may register; the school has no valid type.
Catalog ==
    { Location("General", 3, "hospital"),
      Location("Hope", 2, "hospital"),
      Location("KIMS", 4, "hospital"),
      Location("Island", 5, "hospital"),
      Location("Central", 2, "fire_station"),
      Location("School", 2, "school") }

\* ----------------------------------------------------------- the requests
\* vehicle_type.lower() on the strings explored.
Lower(str) ==
    CASE str = "AMBULANCE" -> "ambulance"
      [] str = "Police" -> "police"
      [] OTHER -> str

VehicleTypes == {"ambulance", "fire_engine", "police", "AMBULANCE", "spaceship"}

\* type_map of find_optimal_route (lines 112-116).
type_map ==
    [ambulance |-> "hospital", fire_engine |-> "fire_station", police |-> "police_station"]

\* Where a request may come from: off the network next to node 1, or node 2.
StartPositions == {6, 2}

NoArgs == [cur |-> 0, vehicle_type |-> "", traffic_weights |-> TrafficNone]

\* best_length: float('inf') or a number.
Infinite == [inf |-> TRUE, v |-> 0]
Finite(x) == [inf |-> FALSE, v |-> x]

\* Variant: `<=` in place of `<`.
LessOrEqualBest(length, best_length) == best_length.inf \/ length <= best_length.v

\* length < best_length
LessThanBest(length, best_length) == best_length.inf \/ length < best_length.v

NoBest == [route |-> <<>>, length |-> Infinite, location |-> NoLocation]

NoResult == [status |-> "none", route_coords |-> <<>>, location |-> NoLocation]
Raised(exc) == [status |-> exc, route_coords |-> <<>>, location |-> NoLocation]

\* The frame of a caller that is not inside find_optimal_route.
IdleCall ==
    [pc |-> "idle", args |-> NoArgs, start_node |-> 0, futures |-> <<>>, fi |-> 0,
     best |-> NoBest, result |-> NoResult, overlapped |-> FALSE]

\* ------------------------------------------------ the grid router (pure part)
\* Largest frame height and width explored.
MaxDim == 3

\* Side of the largest frame without boxes explored.
OpenDim == 11

\* A grid: frame.shape[0] rows, frame.shape[1] columns, and the cells set
\* to 1 by the boxes.
Cells(h, w) == (0..(h - 1)) \X (0..(w - 1))

\* Boxes (x1, y1, x2, y2) after int(): corners on the pixel lattice.
Boxes(h, w) == (0..w) \X (0..h) \X (0..w) \X (0..h)

\* grid[int(y1):int(y2), int(x1):int(x2)] = 1 for every box (lines 104-108).
BuildGrid(h, w, boxes) ==
    [h |-> h, w |-> w,
     blocked |-> { c \in Cells(h, w) :
                     \E b \in boxes : b[2] <= c[1] /\ c[1] < b[4]
                                      /\ b[1] <= c[2] /\ c[2] < b[3] }]

NoGrid == [h |-> 0, w |-> 0, blocked |-> {}]

\* A frame of 5 rows and 4 columns with three boxes: a wall over columns
\* 0-2 of row 1, the cell (3, 2), and the cell (4, 0), which is the goal of
\* a fire engine.  On it a cell is reached by a longer way before the
\* shorter one is found.
WalledFrame ==
    [h |-> 5, w |-> 4,
     boxes |-> { <<0, 1, 3, 2>>, <<2, 3, 3, 4>>, <<0, 4, 1, 5>> }]

\* What determine_vehicle_type produces ('unknown' when no label matches),
\* and one label outside its range.
GridVehicleTypes == {"ambulance", "fire_engine", "police", "unknown", "spaceship"}

\* Lines 111-119: the goal for a vehicle type.
GoalFor(vehicle_type, h, w) ==
    CASE vehicle_type = "ambulance" -> <<h - 1, w - 1>>
      [] vehicle_type = "fire_engine" -> <<h - 1, 0>>
      [] vehicle_type = "police" -> <<0, w - 1>>
      [] OTHER -> <<h - 1, w - 1>>

\* Line 111
GridStart == <<0, 0>>

\* directions of get_neighbors, in order.
Directions == << <<-1, 0>>, <<1, 0>>, <<0, -1>>, <<0, 1>> >>

\* get_neighbors(node, grid): the free in-grid 4-neighbours, in the order of
\* the directions.
get_neighbors(node, grid) ==
    LET cand == [k \in 1..4 |-> <<node[1] + Directions[k][1], node[2] + Directions[k][2]>>]
        ok(n) == /\ 0 <= n[1] /\ n[1] < grid.h
                 /\ 0 <= n[2] /\ n[2] < grid.w
                 /\ n \notin grid.blocked
    IN SelectSeq(cand, ok)

\* heuristic(a, b) squared: heuristic is the square root of this.
heuristic2(a, b) == (b[1] - a[1]) * (b[1] - a[1]) + (b[2] - a[2]) * (b[2] - a[2])

\* A priority g + sqrt(d2).
Prio(g, d2) == [g |-> g, d2 |-> d2]

\* p.g + sqrt(p.d2) < q.g + sqrt(q.d2), decided in integers.
PrioLess(p, q) ==
    LET d == q.g - p.g
    IN IF d >= 0
       THEN LET l == p.d2 - q.d2 - d * d
            IN IF l < 0 THEN TRUE ELSE l * l < 4 * d * d * q.d2
       ELSE LET m == q.d2 - p.d2 - d * d
            IN IF m <= 0 THEN FALSE ELSE 4 * d * d * p.d2 < m * m

\* Tuple order of the queue entries (priority, node).
EntryLess(e1, e2) ==
    \/ PrioLess(e1.f, e2.f)
    \/ /\ ~PrioLess(e2.f, e1.f)
       /\ \/ e1.node[1] < e2.node[1]
          \/ e1.node[1] = e2.node[1] /\ e1.node[2] < e2.node[2]

\* open_set.get(): the least entry.
QueueMin(q) == CHOOSE e \in q : \A o \in q \ {e} : EntryLess(e, o)

\* d[k] = v on a dictionary.
DictPut(d, k, v) == [x \in DOMAIN d \cup {k} |-> IF x = k THEN v ELSE d[x]]

\* Variant: the test of line 86 left out, every neighbour is recorded anew.
RECURSIVE ExpandAlways(_, _, _, _)
ExpandAlways(st, current, nbrs, goal_) ==
    IF nbrs = <<>> THEN st
    ELSE LET neighbor == Head(nbrs)
             tentative_g_score == st.g[current] + 1
         IN ExpandAlways(
                [open |-> st.open \cup
                            { [f |-> Prio(tentative_g_score, heuristic2(neighbor, goal_)),
                               node |-> neighbor] },
                 came |-> DictPut(st.came, neighbor, current),
                 g |-> DictPut(st.g, neighbor, tentative_g_score)],
                current, Tail(nbrs), goal_)

\* Lines 83-90 for the neighbours nbrs of current, in order, on the search
\* state st = (open, came, g).
RECURSIVE Expand(_, _, _, _)
Expand(st, current, nbrs, goal_) ==
    IF nbrs = <<>> THEN st
    ELSE LET neighbor == Head(nbrs)
             \* heuristic(current, neighbor) is sqrt(1) for a 4-neighbour
             tentative_g_score == st.g[current] + 1
             st2 == IF neighbor \notin DOMAIN st.g \/ tentative_g_score < st.g[neighbor]
                    THEN [open |-> st.open \cup
                                     { [f |-> Prio(tentative_g_score, heuristic2(neighbor, goal_)),
                                        node |-> neighbor] },
                          came |-> DictPut(st.came, neighbor, current),
                          g |-> DictPut(st.g, neighbor, tentative_g_score)]
                    ELSE st
         IN Expand(st2, current, Tail(nbrs), goal_)

\* Variant: the start is not added to the path.
RECURSIVE BackTrackNoStart(_, _)
BackTrackNoStart(current, came) ==
    IF current \in DOMAIN came
    THEN Append(BackTrackNoStart(came[current], came), current)
    ELSE <<>>

\* Lines 76-81: follow came_from back from current, then add start and
\* reverse.
RECURSIVE BackTrack(_, _)
BackTrack(current, came) ==
    IF current \in DOMAIN came
    THEN Append(BackTrack(came[current], came), current)
    ELSE <<GridStart>>

\* Lines 124-127: the segments between consecutive points of the path.
Segments(path) == [i \in 1..(IF Len(path) = 0 THEN 0 ELSE Len(path) - 1) |-> <<path[i], path[i + 1]>>]

NoGridResult == [status |-> "none", outcome |-> "none", path |-> <<>>, optimal_path |-> <<>>]

\* ------------------------------------------- VehicleDetector: pure part
\* The frame contents explored: one more than the cache holds.
Frames == 1..(max_cache_size + 1)

\* The frame numbers process_video passes with a frame (lines 187, 194):
\* the content 1 is met at two positions of the video, every other content
\* at one.
FrameNumbersOf(frame) == IF frame = 1 THEN {0, 1} ELSE {0}

\* use_cache: every caller (lines 194, 253, 303) leaves it at its default.
UseCache == {TRUE}

\* self.classes (lines 26-31).
classes ==
    [id \in 0..3 |->
        CASE id = 0 -> "Ambulance" [] id = 1 -> "Fire Engine"
          [] id = 2 -> "Police" [] OTHER -> "Non Emergency"]

\* results[0].boxes of self.model(frame_tensor) (line 88): class id and
\* confidence (in percent) of every box, a function of the frame content.
\* Class id 7 is not a key of self.classes.
ModelBoxes(frame) ==
    CASE frame = 1 -> << [cls |-> 0, conf |-> 90] >>
      [] frame = 2 -> << [cls |-> 2, conf |-> 70], [cls |-> 7, conf |-> 80] >>
      [] frame = 3 -> << [cls |-> 1, conf |-> 60], [cls |-> 1, conf |-> 85] >>
      [] OTHER -> << >>

\* Detection(class_name, confidence, bbox, frame_number, timestamp); the
\* box and the time stamp play no part in the cache.
Detection(class_name, confidence, frame_number) ==
    [class_name |-> class_name, confidence |-> confidence, frame_number |-> frame_number]

\* _process_detections(result, frame_number) (lines 106-134).
RECURSIVE _process_detections(_, _)
_process_detections(boxes, frame_number) ==
    IF boxes = <<>> THEN <<>>
    ELSE LET b == Head(boxes)
             rest == _process_detections(Tail(boxes), frame_number)
         IN IF b.cls \in DOMAIN classes
            THEN <<Detection(classes[b.cls], b.conf, frame_number)>> \o rest
            ELSE rest

\* cache_key of lines 75-76: "detection_" followed by the hash of the
\* frame's bytes; frames of equal content have equal keys.
_get_cached_detection_key(frame) == <<"detection", frame>>

\* A Python dict keeps its keys in insertion order: cache_access_count is
\* a sequence of (key, count) items.
DictKeys(d) == { d[i].key : i \in DOMAIN d }
DictIndex(d, k) == (CHOOSE i \in DOMAIN d : d[i].key = k)
CountOf(d, k) == d[DictIndex(d, k)].count

\* d[k] = v: an existing key keeps its place.
DictSet(d, k, v) ==
    IF k \in DictKeys(d)
    THEN [i \in DOMAIN d |-> IF d[i].key = k THEN [key |-> k, count |-> v] ELSE d[i]]
    ELSE Append(d, [key |-> k, count |-> v])

\* del d[k]
DictDel(d, k) == SelectSeq(d, LAMBDA item : item.key # k)

\* min(d, key=d.get): the first key, in insertion order, of least count.
MinCountKey(d) ==
    LET i == CHOOSE i \in DOMAIN d :
                 /\ \A j \in DOMAIN d : d[i].count <= d[j].count
                 /\ \A j \in 1..(i - 1) : d[j].count > d[i].count
    IN d[i].key

\* Variant: the cache is taken as full only when it is over its size.
CacheOverFull(cache) == Cardinality(DOMAIN cache) > max_cache_size

\* len(self.detection_cache) >= self.max_cache_size (line 96)
CacheFull(cache) == Cardinality(DOMAIN cache) >= max_cache_size

\* self.detection_cache without the key k.
CacheDel(cache, k) == [x \in DOMAIN cache \ {k} |-> cache[x]]

\* self.detection_cache[k] = v
CachePut(cache, k, v) == [x \in DOMAIN cache \cup {k} |-> IF x = k THEN v ELSE cache[x]]

\* The order of last use of the keys, oldest first, after k was used.
Touch(order, k) == Append(SelectSeq(order, LAMBDA x : x # k), k)

Workers == 1..MaxWorkers

\* The detect_frame calls explored on one detector: enough to fill the
\* cache, use an entry again and store one result more.
MaxCalls == max_cache_size + 2

\* The frame of a pool thread that is not inside detect_frame.
IdleWorker ==
    [pc |-> "idle", frame |-> 0, frame_number |-> 0, use_cache |-> FALSE,
     cache_key |-> <<>>, detections |-> <<>>, lru_key |-> <<>>, ret |-> <<>>]

\* ------------------------------ ImageDetector._get_best_detections: pure
\* The detection dictionaries of _process_detections (image_detection.py
\* lines 41-48): class name, confidence (in percent) and frame.
DetItems ==
    [class_name : {"Ambulance", "Police"}, confidence : {60, 90}, frame : {0, 5}]

\* The lists of at most n detections.
RECURSIVE DetLists(_)
DetLists(n) ==
    IF n = 0 THEN { <<>> }
    ELSE LET shorter == DetLists(n - 1)
         IN shorter \cup { Append(l, d) : l \in { x \in shorter : Len(x) = n - 1 },
                                          d \in DetItems }

\* The keys of grouped_detections in insertion order (lines 151-156): the
\* class names in the order of their first detection.
RECURSIVE GroupKeys(_, _)
GroupKeys(detections, keys) ==
    IF detections = <<>> THEN keys
    ELSE LET class_name == Head(detections).class_name
         IN GroupKeys(Tail(detections),
                      IF \E i \in DOMAIN keys : keys[i] = class_name
                      THEN keys ELSE Append(keys, class_name))

\* grouped_detections[class_name]: the detections of the class, in order.
ClassDetections(detections, class_name) ==
    SelectSeq(detections, LAMBDA det : det.class_name = class_name)

\* Variant: the first detection of the class is taken.
FirstDetection(class_detections) == class_detections[1]

\* max(class_detections, key=lambda x: x['confidence']) (line 160): the
\* first detection of greatest confidence.
BestDetection(class_detections) ==
    LET i == CHOOSE i \in DOMAIN class_detections :
                 /\ \A j \in DOMAIN class_detections :
                       class_detections[j].confidence <= class_detections[i].confidence
                 /\ \A j \in 1..(i - 1) :
                       class_detections[j].confidence < class_detections[i].confidence
    IN class_detections[i]

\* _get_best_detections(detections) (lines 141-163).
_get_best_detections(detections) ==
    LET keys == GroupKeys(detections, <<>>)
    IN [i \in 1..Len(keys) |-> BestDetection(ClassDetections(detections, keys[i]))]

\* ------------------------------------------------- app.py: the pure part
\* Config (lines 34-36).
ALLOWED_IMAGE_EXTENSIONS == {"jpg", "jpeg", "png"}
ALLOWED_VIDEO_EXTENSIONS == {"mp4", "avi", "mov"}
MAX_FILE_SIZE == 100 * 1024 * 1024

\* The file names of the uploads explored, as the parts between the dots;
\* <<>> is the empty name.
Filenames ==
    { <<>>, <<"clip", "MP4">>, <<"photo", "jpg">>, <<"notes", "txt">>, <<"README">> }

\* The uploads: a name, a size in bytes, and whether seek and tell work on
\* the file object.
Uploads ==
    [filename : Filenames,
     size : {0, 1, MAX_FILE_SIZE, MAX_FILE_SIZE + 1},
     seekable : BOOLEAN]

\* str.lower() on the extensions explored.
LowerExt(str) ==
    CASE str = "MP4" -> "mp4"
      [] str = "JPG" -> "jpg"
      [] OTHER -> str

\* Line 62: the part after the last dot in lower case, '' without a dot.
FileExt(filename) ==
    IF Len(filename) > 1 THEN LowerExt(filename[Len(filename)]) ELSE ""

\* validate_file(file, allowed_extensions) (lines 57-80).
validate_file(file, allowed_extensions) ==
    IF file.filename = <<>> THEN [ok |-> FALSE, msg |-> "No filename provided"]
    ELSE IF FileExt(file.filename) \notin allowed_extensions
         THEN [ok |-> FALSE, msg |-> "File type not allowed"]
    ELSE IF ~file.seekable THEN [ok |-> FALSE, msg |-> "Error validating file"]
    ELSE IF file.size > MAX_FILE_SIZE
         THEN [ok |-> FALSE, msg |-> "File size exceeds maximum limit"]
    ELSE IF file.size = 0 THEN [ok |-> FALSE, msg |-> "File is empty"]
    ELSE [ok |-> TRUE, msg |-> ""]

\* raise HTTPException(status_code, detail), as the client sees it; a
\* detail is a text, kept as the sequence of its pieces.
HTTPException(status_code, detail) == [status_code |-> status_code, detail |-> detail]

\* str(status_code) for the codes in use.
StatusText(status_code) ==
    CASE status_code = 400 -> "400"
      [] status_code = 500 -> "500"
      [] OTHER -> "200"

\* str(e) of an HTTPException e: the status code, then the detail.
StrOf(e) == <<StatusText(e.status_code), ": ">> \o e.detail

\* JSONResponse(status_code=200, ...)
JSONResponse == [status_code |-> 200, detail |-> <<"success">>]

NoResponse == [status_code |-> 0, detail |-> <<>>]

\* What detector.detect_in_video and detector.detect_in_image may do:
\* return no detection, return one, or raise.
DetectorOutcomes == {"none", "one", "raises"}

\* The uploaded file of request n and the frame written next to it
\* (lines 85-89 and 214).
UploadPath(n) == <<"upload", n>>
FramePath(n) == <<"upload", n, "_last_frame.jpg">>

\* The frame of the handler between two requests.
IdleRequest ==
    [pc |-> "idle", endpoint |-> "", file |-> <<>>, filepath |-> <<>>,
     detections |-> 0, detector_ran |-> FALSE]

VARIABLES
    graph,                \* self._graph
    emergency_locations,  \* self._emergency_locations
    pc,                   \* "idle", "collecting" (inside the with block), "returned"
    args,                 \* the arguments of the running find_optimal_route
    start_node,           \* line 125
    futures,              \* the submitted tasks, in submission order
    fi,                   \* index of the future the loop of line 141 waits for
    best,                 \* best_route, best_length, best_location
    result,               \* what the call returned or raised
    last_error,           \* what the last load or registration raised ("" if nothing)
    accepted,             \* history: the registrations that were accepted, in order
    load_succeeded,       \* history: load_area_boundary has returned normally
    first_done,           \* history: index of the first task to finish, 0 if none
    gpc,                  \* find_optimal_path: "idle", "search" (in astar's loop), "done"
    gargs,                \* its vehicle_type and the grid built from frame and boxes
    goal,                 \* the goal chosen for the vehicle type
    open_set,             \* astar: the entries of the PriorityQueue
    came_from,            \* astar: came_from
    g_score,              \* astar: g_score
    gresult,              \* what astar returned and the segments built from it
    iterations,           \* history: the iterations of astar's loop so far
    lcall,                \* utils/location.py: the function called and its arguments
    lret,                 \* what that call returned
    calls,                \* the frames of the concurrent find_optimal_route calls
    detection_cache,      \* VehicleDetector: self.detection_cache
    cache_access_count,   \* self.cache_access_count, in insertion order
    cache_lock,           \* self.cache_lock: the thread holding it, 0 when free
    workers,              \* the frames of the threads inside detect_frame
    recency,              \* history: the cached keys, least recently used first
    ncalls,               \* history: the detect_frame calls made so far
    icall,                \* ImageDetector: the method called and its argument
    iret,                 \* what that call returned
    areq,                 \* app.py: the frame of the detect handler
    files,                \* the files in UPLOAD_FOLDER
    tasks,                \* the tasks added to background_tasks, not yet run
    response,             \* the last response sent
    stored,               \* history: the files save_upload_file has returned
    scheduled,            \* history: the files cleanup_file was scheduled for
    nreq                  \* history: the requests received

pfvars == <<graph, emergency_locations, pc, args, start_node, futures, fi, best,
            result, last_error, accepted, load_succeeded, first_done>>

gvars == <<gpc, gargs, goal, open_set, came_from, g_score, gresult, iterations>>

lvars == <<lcall, lret>>

cvars == <<calls>>

dvars == <<detection_cache, cache_access_count, cache_lock, workers, recency, ncalls>>

\* The variables of the parts added to the first four.
ivars == <<icall, iret>>

avars == <<areq, files, tasks, response, stored, scheduled, nreq>>

xvars == <<dvars, ivars, avars>>

basevars == <<pfvars, gvars, lvars, cvars>>

vars == <<pfvars, gvars, lvars, cvars, xvars>>

Init ==
    /\ graph = "None"
    /\ emergency_locations = [t \in LocationTypes |-> <<>>]
    /\ pc = "idle"
    /\ args = NoArgs
    /\ start_node = 0
    /\ futures = <<>>
    /\ fi = 0
    /\ best = NoBest
    /\ result = NoResult
    /\ last_error = ""
    /\ accepted = <<>>
    /\ load_succeeded = FALSE
    /\ first_done = 0
    /\ gpc = "idle"
    /\ gargs = [vehicle_type |-> "", grid |-> NoGrid]
    /\ goal = <<0, 0>>
    /\ open_set = {}
    /\ came_from = <<>>
    /\ g_score = <<>>
    /\ gresult = NoGridResult
    /\ iterations = 0
    /\ lcall = [fn |-> "none"]
    /\ lret = <<>>
    /\ calls = [c \in 1..MaxCallers |-> IdleCall]
    /\ detection_cache = <<>>
    /\ cache_access_count = <<>>
    /\ cache_lock = 0
    /\ workers = [t \in Workers |-> IdleWorker]
    /\ recency = <<>>
    /\ ncalls = 0
    /\ icall = [fn |-> "none"]
    /\ iret = <<>>
    /\ areq = IdleRequest
    /\ files = {}
    /\ tasks = <<>>
    /\ response = NoResponse
    /\ stored = {}
    /\ scheduled = {}
    /\ nreq = 0

\* The locals of a finished call are gone when the caller goes on.
DropFrame ==
    /\ args' = NoArgs
    /\ start_node' = 0
    /\ futures' = <<>>
    /\ fi' = 0
    /\ best' = NoBest
    /\ result' = NoResult
    /\ first_done' = 0

\* The caller is not inside find_optimal_route.
CallerFree == pc \in {"idle", "returned"}

\* load_area_boundary(boundary).  has_keys: the boundary has the four keys;
\* outcome: what osmnx does: "fetch_fails" (graph_from_bbox raises),
\* "speeds_fail" (add_edge_speeds or add_edge_travel_times raises after
\* line 35 assigned the graph), "ok".
load_area_boundary(has_keys, outcome) ==
    /\ CallerFree
    /\ UNCHANGED <<xvars, gvars, lvars, cvars>>
    /\ pc' = "idle"
    /\ DropFrame
    /\ UNCHANGED <<emergency_locations, accepted>>
    /\ IF ~has_keys
       THEN /\ last_error' = "ValueError: Boundary must contain keys"
            /\ UNCHANGED <<graph, load_succeeded>>
       ELSE CASE outcome = "fetch_fails" ->
                   /\ last_error' = "RuntimeError: Failed to load graph"
                   /\ UNCHANGED <<graph, load_succeeded>>
              [] outcome = "speeds_fail" ->
                   /\ graph' = "raw"
                   /\ last_error' = "RuntimeError: Failed to load graph"
                   /\ UNCHANGED load_succeeded
              [] OTHER ->
                   /\ graph' = "timed"
                   /\ last_error' = ""
                   /\ load_succeeded' = TRUE

\* Variant: the new location is put in front of the list.
PrependLocation(locs, location) ==
    [locs EXCEPT ![location.type] = <<location>> \o @]

\* The per-type lists after add_emergency_location accepted `location`.
AppendLocation(locs, location) ==
    [locs EXCEPT ![location.type] = Append(@, location)]

\* add_emergency_location(location)
add_emergency_location(location) ==
    /\ CallerFree
    /\ UNCHANGED <<xvars, gvars, lvars, cvars>>
    /\ pc' = "idle"
    /\ DropFrame
    /\ UNCHANGED <<graph, load_succeeded>>
    /\ IF location.type \notin DOMAIN emergency_locations
       THEN /\ last_error' = "ValueError: Invalid location type"
            /\ UNCHANGED <<emergency_locations, accepted>>
       ELSE /\ Len(accepted) < MaxRegs
            /\ emergency_locations' = AppendLocation(emergency_locations, location)
            /\ accepted' = Append(accepted, location)
            /\ last_error' = ""

\* ------------------------------------------------------ find_optimal_route
\* A submitted future: its Location argument, its state in the executor and,
\* once done, what _process_location returned.
Future(loc) == [loc |-> loc, status |-> "pending", route |-> <<>>, length |-> 0]

\* executor.submit over `locations` (lines 133-139), in list order.
SubmitAll(locations) == [i \in 1..Len(locations) |-> Future(locations[i])]

\* Variant: the check of lines 122-123 left out.
EntryErrorNoEmptyCheck(g, locs, vehicle_type) ==
    IF ~GraphTruthy(g) THEN "RuntimeError: No graph loaded"
    ELSE IF DictGet(type_map, Lower(vehicle_type), "None") = "None"
         THEN "ValueError: Invalid vehicle type"
         ELSE ""

\* Variant: the vehicle-type check moved behind the registry check, an
\* unknown type being looked up as a hospital.
EntryErrorTypeCheckLast(g, locs, vehicle_type) ==
    IF ~GraphTruthy(g) THEN "RuntimeError: No graph loaded"
    ELSE LET location_type == DictGet(type_map, Lower(vehicle_type), "hospital")
         IN IF locs[location_type] = <<>> THEN "ValueError: No locations available"
            ELSE IF DictGet(type_map, Lower(vehicle_type), "None") = "None"
                 THEN "ValueError: Invalid vehicle type"
            ELSE ""

\* The checks of lines 109-123: the exception raised, "" when none.
EntryError(g, locs, vehicle_type) ==
    IF ~GraphTruthy(g) THEN "RuntimeError: No graph loaded"
    ELSE LET location_type == DictGet(type_map, Lower(vehicle_type), "None")
         IN IF location_type = "None" THEN "ValueError: Invalid vehicle type"
            ELSE IF locs[location_type] = <<>> THEN "ValueError: No locations available"
            ELSE ""

\* The call up to the end of the submit loop (lines 109-139).
find_optimal_route(cur, vehicle_type, traffic_weights) ==
    /\ CallerFree
    /\ UNCHANGED <<xvars, gvars, lvars, cvars>>
    /\ args' = [cur |-> cur, vehicle_type |-> vehicle_type,
                traffic_weights |-> traffic_weights]
    /\ best' = NoBest
    /\ first_done' = 0
    /\ last_error' = ""
    /\ UNCHANGED <<graph, emergency_locations, accepted, load_succeeded>>
    /\ LET err == EntryError(graph, emergency_locations, vehicle_type)
       IN IF err # ""
          THEN /\ result' = Raised(err)
               /\ pc' = "returned"
               /\ start_node' = 0
               /\ futures' = <<>>
               /\ fi' = 0
          ELSE /\ result' = NoResult
               /\ pc' = "collecting"
               /\ start_node' = _get_nearest_node(cur)
               /\ futures' = SubmitAll(emergency_locations[type_map[Lower(vehicle_type)]])
               /\ fi' = 1

\* _process_location(start_node, loc, traffic_weights) (lines 157-160)
_process_location(g, start, loc, traffic_weights) ==
    LET end_node == _get_nearest_node(loc.pos)
    IN RouteTable[g, start, end_node, traffic_weights]

\* A worker thread of the pool picks up future i.
TaskStart(i) ==
    /\ pc = "collecting"
    /\ UNCHANGED <<xvars, gvars, lvars, cvars>>
    /\ i \in DOMAIN futures
    /\ futures[i].status = "pending"
    /\ futures' = [futures EXCEPT ![i].status = "running"]
    /\ UNCHANGED <<graph, emergency_locations, pc, args, start_node, fi, best,
                   result, last_error, accepted, load_succeeded, first_done>>

\* Variant: the task applies the traffic weights to the shared graph in
\* place, which loses the base travel times.
TaskFinishWeightingGraph(i) ==
    /\ pc = "collecting"
    /\ UNCHANGED <<xvars, gvars, lvars, cvars>>
    /\ i \in DOMAIN futures
    /\ futures[i].status = "running"
    /\ LET r == _process_location(graph, start_node, futures[i].loc, args.traffic_weights)
       IN futures' = [futures EXCEPT ![i] =
                        [loc |-> @.loc, status |-> "done",
                         route |-> r.route, length |-> r.length]]
    /\ first_done' = IF first_done = 0 THEN i ELSE first_done
    /\ graph' = IF TrafficTruthy(args.traffic_weights) THEN "raw" ELSE graph
    /\ UNCHANGED <<emergency_locations, pc, args, start_node, fi, best,
                   result, last_error, accepted, load_succeeded>>

\* The worker finishes future i.
TaskFinish(i) ==
    /\ pc = "collecting"
    /\ UNCHANGED <<xvars, gvars, lvars, cvars>>
    /\ i \in DOMAIN futures
    /\ futures[i].status = "running"
    /\ LET r == _process_location(graph, start_node, futures[i].loc, args.traffic_weights)
       IN futures' = [futures EXCEPT ![i] =
                        [loc |-> @.loc, status |-> "done",
                         route |-> r.route, length |-> r.length]]
    /\ first_done' = IF first_done = 0 THEN i ELSE first_done
    /\ UNCHANGED <<graph, emergency_locations, pc, args, start_node, fi, best,
                   result, last_error, accepted, load_succeeded>>

\* Variant: the result is taken as soon as the task has started.
FutureStarted(f) == f.status # "pending"

\* future.result() returns only for a finished future.
FutureResultReady(f) == f.status = "done"

\* Variant: the first route found is kept.
ReduceFirstFound(b, f) ==
    IF Len(f.route) > 0 /\ b.length.inf
    THEN [route |-> f.route, length |-> Finite(f.length), location |-> f.loc]
    ELSE b

\* Variant: every route found replaces the best one, whatever its length.
ReduceLastFound(b, f) ==
    IF Len(f.route) > 0
    THEN [route |-> f.route, length |-> Finite(f.length), location |-> f.loc]
    ELSE b

\* Variant: a candidate without a route discards the best one so far.
ReduceFailureResets(b, f) ==
    IF Len(f.route) = 0 THEN NoBest
    ELSE IF LessThanBest(f.length, b.length)
         THEN [route |-> f.route, length |-> Finite(f.length), location |-> f.loc]
         ELSE b

\* Lines 143-146: the reduction step for one result.
Reduce(b, f) ==
    IF Len(f.route) > 0 /\ LessThanBest(f.length, b.length)
    THEN [route |-> f.route, length |-> Finite(f.length), location |-> f.loc]
    ELSE b

\* One iteration of `for future in futures` (lines 141-146).
CollectResult ==
    /\ pc = "collecting"
    /\ UNCHANGED <<xvars, gvars, lvars, cvars>>
    /\ fi \in DOMAIN futures
    /\ FutureResultReady(futures[fi])
    /\ best' = Reduce(best, futures[fi])
    /\ fi' = fi + 1
    /\ UNCHANGED <<graph, emergency_locations, pc, args, start_node, futures,
                   result, last_error, accepted, load_succeeded, first_done>>

\* Lines 151-154: the coordinates of the nodes of the route.
RouteCoords(route) == [k \in 1..Len(route) |-> route[k]]

\* Lines 148-155: what the call raises or returns.
FinalResult(b) ==
    IF Len(b.route) = 0 THEN Raised("RuntimeError: No valid route found")
    ELSE [status |-> "ok", route_coords |-> RouteCoords(b.route), location |-> b.location]

\* The end of the with block (the executor's shutdown waits for every
\* future) and lines 148-155.
ReturnRoute ==
    /\ pc = "collecting"
    /\ UNCHANGED <<xvars, gvars, lvars, cvars>>
    /\ fi = Len(futures) + 1
    /\ \A i \in DOMAIN futures : FutureResultReady(futures[i])
    /\ result' = FinalResult(best)
    /\ pc' = "returned"
    /\ UNCHANGED <<graph, emergency_locations, args, start_node, futures, fi, best,
                   last_error, accepted, load_succeeded, first_done>>

Next ==
    \/ \E has_keys \in BOOLEAN, outcome \in {"fetch_fails", "speeds_fail", "ok"} :
         load_area_boundary(has_keys, outcome)
    \/ \E location \in Catalog : add_emergency_location(location)
    \/ \E cur \in StartPositions, vt \in VehicleTypes, tw \in TrafficSnapshots :
         find_optimal_route(cur, vt, tw)
    \/ \E i \in DOMAIN futures : TaskStart(i)
    \/ \E i \in DOMAIN futures : TaskFinish(i)
    \/ CollectResult
    \/ ReturnRoute

Spec == Init /\ [][Next]_vars

\* ------------------------------------------------------- find_optimal_path
\* find_optimal_path(frame, predictions, vehicle_type) up to the first test
\* of astar's loop (lines 56-72, 103-122).  The function keeps nothing
\* between calls, so one call from the initial state stands for every call.
find_optimal_path(h, w, boxes, vehicle_type) ==
    /\ gpc = "idle"
    /\ gpc' = "search"
    /\ gargs' = [vehicle_type |-> vehicle_type, grid |-> BuildGrid(h, w, boxes)]
    /\ goal' = GoalFor(vehicle_type, h, w)
    /\ open_set' = { [f |-> Prio(0, 0), node |-> GridStart] }
    /\ came_from' = <<>>
    /\ g_score' = [x \in {GridStart} |-> 0]
    /\ gresult' = NoGridResult
    /\ iterations' = 0
    /\ UNCHANGED <<xvars, pfvars, lvars, cvars>>

\* What find_optimal_path returns for the path astar returned.
GridResult(outcome, path) ==
    [status |-> "ok", outcome |-> outcome, path |-> path, optimal_path |-> Segments(path)]

\* One iteration of `while not open_set.empty()` (lines 72-90): the goal is
\* popped and the path returned, or the popped node is expanded.
AstarIterate ==
    /\ gpc = "search"
    /\ open_set # {}
    /\ iterations' = iterations + 1
    /\ UNCHANGED <<xvars, pfvars, lvars, cvars, gargs, goal>>
    /\ LET e == QueueMin(open_set)
           current == e.node
       IN IF current = goal
          THEN /\ gresult' = GridResult("GOAL_REACHED", BackTrack(current, came_from))
               /\ gpc' = "done"
               /\ UNCHANGED <<open_set, came_from, g_score>>
          ELSE LET st == Expand([open |-> open_set \ {e}, came |-> came_from, g |-> g_score],
                                current, get_neighbors(current, gargs.grid), goal)
               IN /\ open_set' = st.open
                  /\ came_from' = st.came
                  /\ g_score' = st.g
                  /\ UNCHANGED <<gpc, gresult>>

\* The loop ends with the queue empty: line 92 returns [].
AstarExhausted ==
    /\ gpc = "search"
    /\ open_set = {}
    /\ gresult' = GridResult("EXHAUSTED", <<>>)
    /\ gpc' = "done"
    /\ UNCHANGED <<xvars, pfvars, lvars, cvars, gargs, goal, open_set, came_from, g_score, iterations>>

NextGrid ==
    \/ \E h \in 1..MaxDim, w \in 1..MaxDim :
         \E boxes \in {{}} \cup { {b} : b \in Boxes(h, w) }, vt \in GridVehicleTypes :
           find_optimal_path(h, w, boxes, vt)
    \/ \E d \in MaxDim..OpenDim : find_optimal_path(d, d, {}, "ambulance")
    \/ \E vt \in GridVehicleTypes :
         find_optimal_path(WalledFrame.h, WalledFrame.w, WalledFrame.boxes, vt)
    \/ AstarIterate
    \/ AstarExhausted

SpecGrid == Init /\ [][NextGrid]_vars

\* ------------------------------------------- concurrent find_optimal_route
\* Several threads call find_optimal_route on one PathFinder.  Every call
\* has its own locals (a frame of `calls`); the graph and the registry are
\* the shared attributes of the PathFinder.
Callers == 1..MaxCallers

\* The facilities registered before the concurrent calls, each at most
\* once, and the requests the callers make: ambulances next to node 1, with
\* no snapshot or with one of two snapshots.
ConcurrentCatalog == { l \in Catalog : l.name \in {"General", "Hope"} }
ConcurrentStarts == {6}
ConcurrentVehicleTypes == {"ambulance"}
ConcurrentSnapshots == { tw \in TrafficSnapshots : tw.given => DOMAIN tw.w # {} }

\* Variant: the weights are kept in one attribute of the PathFinder, so a
\* task works with those of the first call in progress.
SharedWeights(cs, c) ==
    cs[CHOOSE d \in Callers :
          /\ cs[d].pc = "collecting"
          /\ \A e \in Callers : cs[e].pc = "collecting" => d <= e].args.traffic_weights

\* The traffic_weights a task of call c is submitted with (line 138): the
\* argument of its own call.
TaskWeights(cs, c) == cs[c].args.traffic_weights

\* The PathFinder is set up before the calls are made.
NoCallMade == \A c \in Callers : calls[c].pc = "idle"

ConcurrentSetup ==
    /\ NoCallMade
    /\ \/ graph = "None" /\ load_area_boundary(TRUE, "ok")
       \/ \E location \in ConcurrentCatalog :
            /\ \A k \in DOMAIN accepted : accepted[k] # location
            /\ add_emergency_location(location)

\* Caller c enters find_optimal_route: lines 109-139.
CallEnter(c, cur, vehicle_type, traffic_weights) ==
    /\ calls[c].pc = "idle"
    /\ LET err == EntryError(graph, emergency_locations, vehicle_type)
           a == [cur |-> cur, vehicle_type |-> vehicle_type,
                 traffic_weights |-> traffic_weights]
       IN calls' = [calls EXCEPT ![c] =
            IF err # ""
            THEN [pc |-> "returned", args |-> a, start_node |-> 0, futures |-> <<>>,
                  fi |-> 0, best |-> NoBest, result |-> Raised(err), overlapped |-> FALSE]
            ELSE [pc |-> "collecting", args |-> a, start_node |-> _get_nearest_node(cur),
                  futures |-> SubmitAll(emergency_locations[type_map[Lower(vehicle_type)]]),
                  fi |-> 1, best |-> NoBest, result |-> NoResult, overlapped |-> FALSE]]
    /\ UNCHANGED <<xvars, pfvars, gvars, lvars>>

\* A worker thread runs task i of call c (lines 157-160) while the other
\* calls are where they are.
CallTask(c, i) ==
    /\ calls[c].pc = "collecting"
    /\ i \in DOMAIN calls[c].futures
    /\ calls[c].futures[i].status = "pending"
    /\ LET r == _process_location(graph, calls[c].start_node, calls[c].futures[i].loc,
                                  TaskWeights(calls, c))
       IN calls' = [calls EXCEPT
                      ![c].futures[i] = [loc |-> @.loc, status |-> "done",
                                         route |-> r.route, length |-> r.length],
                      ![c].overlapped =
                          @ \/ \E d \in Callers \ {c} : calls[d].pc = "collecting"]
    /\ UNCHANGED <<xvars, pfvars, gvars, lvars>>

\* One iteration of the loop of lines 141-146 in call c.
CallCollect(c) ==
    /\ calls[c].pc = "collecting"
    /\ calls[c].fi \in DOMAIN calls[c].futures
    /\ FutureResultReady(calls[c].futures[calls[c].fi])
    /\ calls' = [calls EXCEPT ![c].best = Reduce(@, calls[c].futures[calls[c].fi]),
                              ![c].fi = @ + 1]
    /\ UNCHANGED <<xvars, pfvars, gvars, lvars>>

\* Call c leaves the with block and returns (lines 148-155).
CallReturn(c) ==
    /\ calls[c].pc = "collecting"
    /\ calls[c].fi = Len(calls[c].futures) + 1
    /\ calls' = [calls EXCEPT ![c].result = FinalResult(calls[c].best),
                              ![c].pc = "returned"]
    /\ UNCHANGED <<xvars, pfvars, gvars, lvars>>

NextConcurrent ==
    \/ ConcurrentSetup
    \/ \E c \in Callers, cur \in ConcurrentStarts, vt \in ConcurrentVehicleTypes,
          tw \in ConcurrentSnapshots : CallEnter(c, cur, vt, tw)
    \/ \E c \in Callers : \E i \in DOMAIN calls[c].futures : CallTask(c, i)
    \/ \E c \in Callers : CallCollect(c)
    \/ \E c \in Callers : CallReturn(c)

SpecConcurrent == Init /\ [][NextConcurrent]_vars

\* ------------------------------------------------------- utils/location.py
\* Coordinates are taken on a lattice of degrees on which the sines and
\* cosines of calculate_distance are rational: latitudes -60, 0, 60 and
\* longitudes 0, 60, 120, 180.  A point is <<lat, lon>>.
Lats == {0 - 60, 0, 60}
Lons == {0, 60, 120, 180}
Points == Lats \X Lons

\* Largest absolute value of the random variation explored.
MaxRandom == 80

\* Line 12: Earth's radius in kilometers.
R == 6371

Abs(x) == IF x < 0 THEN 0 - x ELSE x

\* 2 * math.sin(math.radians(deg)), squared, for a multiple of 30 degrees:
\* sin is odd, so the product sin * sin depends on |deg| only.
SinSq4(deg) ==
    LET m == Abs(deg) % 180
    IN CASE m = 0 -> 0
         [] m = 30 -> 1
         [] m = 60 -> 3
         [] m = 90 -> 4
         [] m = 120 -> 3
         [] m = 150 -> 1

\* 2 * math.cos(math.radians(lat)) for a latitude of the lattice.
Cos2(lat) == IF Abs(lat) = 60 THEN 1 ELSE 2

\* 2 * math.atan2(math.sqrt(a), math.sqrt(1 - a)) in units of 0.0001 radians,
\* for a = a16 / 16 (line 21).
CentralAngle(a16) ==
    << 0, 5054, 7227, 8957, 10472, 11864, 13181, 14455, 15708,
       16961, 18235, 19552, 20944, 22459, 24189, 26362, 31416 >>[a16 + 1]

\* Variant: cos(lat1) used twice in line 18.
calculate_distance_cos_lat1(point1, point2) ==
    LET d_lat == point2[1] - point1[1]
        d_lon == point2[2] - point1[2]
        a16 == 4 * SinSq4(d_lat \div 2)
               + Cos2(point1[1]) * Cos2(point1[1]) * SinSq4(d_lon \div 2)
    IN (2 * R * CentralAngle(a16)) \div 10000

\* calculate_distance(point1, point2): the Haversine distance, in half
\* kilometers rounded down.
calculate_distance(point1, point2) ==
    LET d_lat == point2[1] - point1[1]
        d_lon == point2[2] - point1[2]
        a16 == 4 * SinSq4(d_lat \div 2)
               + Cos2(point1[1]) * Cos2(point2[1]) * SinSq4(d_lon \div 2)
    IN (2 * R * CentralAngle(a16)) \div 10000

\* The mock stations of lines 32-47, their coordinates moved to the
\* lattice.
Station(id, lat, lng) == [id |-> id, lat |-> lat, lng |-> lng]

stations ==
    [MEDICAL |-> << Station(1, 60, 0), Station(2, 0, 60), Station(3, 0 - 60, 120) >>,
     FIRE    |-> << Station(4, 0, 0), Station(5, 0, 120) >>,
     POLICE  |-> << Station(6, 60, 180), Station(7, 0 - 60, 0), Station(8, 0, 180) >>]

\* emergency_type.upper() on the strings explored.
Upper(str) ==
    CASE str = "medical" -> "MEDICAL"
      [] str = "Fire" -> "FIRE"
      [] OTHER -> str

EmergencyTypes == {"MEDICAL", "medical", "Fire", "POLICE", "UNKNOWN"}

\* Lines 54-61: every relevant station with its distance.
WithDistances(location, relevant_stations) ==
    [i \in 1..Len(relevant_stations) |->
        [id |-> relevant_stations[i].id,
         lat |-> relevant_stations[i].lat,
         lng |-> relevant_stations[i].lng,
         distance |-> calculate_distance(location,
                         <<relevant_stations[i].lat, relevant_stations[i].lng>>)]]

\* Insertion of x into a list sorted by distance, behind its equals.
RECURSIVE InsertByDistance(_, _)
InsertByDistance(x, sorted_) ==
    IF sorted_ = <<>> THEN <<x>>
    ELSE IF x.distance < Head(sorted_).distance THEN <<x>> \o sorted_
    ELSE <<Head(sorted_)>> \o InsertByDistance(x, Tail(sorted_))

\* sorted(seq, key=lambda x: x['distance']) (line 64): a stable sort.
RECURSIVE SortedByDistance(_)
SortedByDistance(seq) ==
    IF seq = <<>> THEN <<>>
    ELSE InsertByDistance(seq[Len(seq)], SortedByDistance(SubSeq(seq, 1, Len(seq) - 1)))

\* The values np.random.randint(n) may return.
RandInt(n) == 0..(n - 1)

\* get_nearest_stations(location, emergency_type) with the default
\* stations; pick is the value np.random.randint returned at line 66.
get_nearest_stations(location, emergency_type, pick) ==
    LET relevant_stations == DictGet(stations, Upper(emergency_type), <<>>)
    IN IF relevant_stations = <<>> THEN <<>>
       ELSE LET sorted_stations ==
                    SortedByDistance(WithDistances(location, relevant_stations))
            IN << sorted_stations[pick + 1] >>

\* math.sin(distance * math.pi) * 20 (line 106) for a distance in half
\* kilometers: the sine is 0 on whole kilometers and 1 or -1 on the halves.
DistanceFactor(distance) ==
    CASE distance % 2 = 0 -> 0
      [] distance % 4 = 1 -> 20
      [] OTHER -> 0 - 20

\* Python's min(a, b) and max(a, b).
PyMin(a, b) == IF b < a THEN b ELSE a
PyMax(a, b) == IF b > a THEN b ELSE a

\* Variant: the density returned as computed.
Unclamped(density) == density

\* max(0, min(100, density)) (line 110)
Clamp(density) == PyMax(0, PyMin(100, density))

\* Lines 103-109: the density before it is clamped.
RawDensity(start, end, random_factor) ==
    LET distance == calculate_distance(start, end)
        base_density == 50
        distance_factor == DistanceFactor(distance)
    IN base_density + distance_factor + random_factor

\* get_path_traffic_density(start, end); random_factor is the value
\* np.random.normal(0, 10) returned at line 107.
get_path_traffic_density(start, end, random_factor) ==
    Clamp(RawDensity(start, end, random_factor))

\* The functions of the module keep no state: a call from the initial
\* state stands for every call.
Call_calculate_distance(point1, point2) ==
    /\ lcall.fn = "none"
    /\ lcall' = [fn |-> "calculate_distance", point1 |-> point1, point2 |-> point2]
    /\ lret' = calculate_distance(point1, point2)
    /\ UNCHANGED <<xvars, pfvars, gvars, cvars>>

Call_get_nearest_stations(location, emergency_type, pick) ==
    /\ lcall.fn = "none"
    /\ lcall' = [fn |-> "get_nearest_stations", location |-> location,
                 emergency_type |-> emergency_type, pick |-> pick]
    /\ lret' = get_nearest_stations(location, emergency_type, pick)
    /\ UNCHANGED <<xvars, pfvars, gvars, cvars>>

Call_get_path_traffic_density(start, end, random_factor) ==
    /\ lcall.fn = "none"
    /\ lcall' = [fn |-> "get_path_traffic_density", start |-> start, end |-> end,
                 random_factor |-> random_factor]
    /\ lret' = get_path_traffic_density(start, end, random_factor)
    /\ UNCHANGED <<xvars, pfvars, gvars, cvars>>

NextLocation ==
    /\ lcall.fn = "none"
    /\ \/ \E point1 \in Points, point2 \in Points : Call_calculate_distance(point1, point2)
       \/ \E location \in Points, emergency_type \in EmergencyTypes :
            \E pick \in RandInt(PyMax(1, Len(DictGet(stations, Upper(emergency_type), <<>>)))) :
              Call_get_nearest_stations(location, emergency_type, pick)
       \/ \E start \in Points, end \in Points, random_factor \in (0 - MaxRandom)..MaxRandom :
            Call_get_path_traffic_density(start, end, random_factor)

SpecLocation == Init /\ [][NextLocation]_vars

\* ------------------------------------------- VehicleDetector.detect_frame
\* A pool thread enters detect_frame(frame, frame_number, use_cache)
\* (lines 69-76).
detect_frame(t, frame, frame_number, use_cache) ==
    /\ workers[t].pc = "idle"
    /\ ncalls < MaxCalls
    /\ workers' = [workers EXCEPT ![t] =
                     [IdleWorker EXCEPT !.pc = IF use_cache THEN "check" ELSE "infer",
                                        !.frame = frame,
                                        !.frame_number = frame_number,
                                        !.use_cache = use_cache,
                                        !.cache_key = IF use_cache
                                                      THEN _get_cached_detection_key(frame)
                                                      ELSE <<>>]]
    /\ ncalls' = ncalls + 1
    /\ UNCHANGED <<detection_cache, cache_access_count, cache_lock, recency>>
    /\ UNCHANGED <<basevars, ivars, avars>>

\* Lines 79-82: with the lock taken, a hit counts the access and returns
\* the cached list, a miss goes on to the inference; the lock is free
\* again at the end of the block.
CheckCache(t) ==
    /\ workers[t].pc = "check"
    /\ cache_lock = 0
    /\ LET k == workers[t].cache_key
       IN IF k \in DOMAIN detection_cache
          THEN /\ cache_access_count' =
                     DictSet(cache_access_count, k, CountOf(cache_access_count, k) + 1)
               /\ recency' = Touch(recency, k)
               /\ workers' = [workers EXCEPT ![t].pc = "done",
                                             ![t].ret = detection_cache[k]]
          ELSE /\ workers' = [workers EXCEPT ![t].pc = "infer"]
               /\ UNCHANGED <<cache_access_count, recency>>
    /\ UNCHANGED <<detection_cache, cache_lock, ncalls>>
    /\ UNCHANGED <<basevars, ivars, avars>>

\* Lines 85-91, and line 104 when the cache is not used.
Infer(t) ==
    /\ workers[t].pc = "infer"
    /\ LET detections == _process_detections(ModelBoxes(workers[t].frame),
                                             workers[t].frame_number)
       IN workers' = [workers EXCEPT
                        ![t].detections = detections,
                        ![t].pc = IF workers[t].use_cache THEN "store" ELSE "done",
                        ![t].ret = IF workers[t].use_cache THEN <<>> ELSE detections]
    /\ UNCHANGED <<detection_cache, cache_access_count, cache_lock, recency, ncalls>>
    /\ UNCHANGED <<basevars, ivars, avars>>

\* `with self.cache_lock` of line 95 and lines 96-100: the thread takes the
\* free lock and, on a full cache, removes the key of least count from both
\* dictionaries.
AcquireAndEvict(t) ==
    /\ workers[t].pc = "store"
    /\ cache_lock = 0
    /\ cache_lock' = t
    /\ IF CacheFull(detection_cache)
       THEN LET lru_key == MinCountKey(cache_access_count)
            IN /\ detection_cache' = CacheDel(detection_cache, lru_key)
               /\ cache_access_count' = DictDel(cache_access_count, lru_key)
               /\ workers' = [workers EXCEPT ![t].pc = "insert", ![t].lru_key = lru_key]
       ELSE /\ workers' = [workers EXCEPT ![t].pc = "insert"]
            /\ UNCHANGED <<detection_cache, cache_access_count>>
    /\ UNCHANGED <<recency, ncalls>>
    /\ UNCHANGED <<basevars, ivars, avars>>

\* Line 101: the detections enter the cache.
InsertDetections(t) ==
    /\ workers[t].pc = "insert"
    /\ cache_lock = t
    /\ detection_cache' =
           CachePut(detection_cache, workers[t].cache_key, workers[t].detections)
    /\ workers' = [workers EXCEPT ![t].pc = "inserted"]
    /\ UNCHANGED <<cache_access_count, cache_lock, recency, ncalls>>
    /\ UNCHANGED <<basevars, ivars, avars>>

\* Line 102, the end of the with block and line 104.
InsertCount(t) ==
    /\ workers[t].pc = "inserted"
    /\ cache_lock = t
    /\ cache_access_count' = DictSet(cache_access_count, workers[t].cache_key, 1)
    /\ recency' = Touch(SelectSeq(recency, LAMBDA x : x # workers[t].lru_key),
                        workers[t].cache_key)
    /\ cache_lock' = 0
    /\ workers' = [workers EXCEPT ![t].pc = "done", ![t].ret = workers[t].detections]
    /\ UNCHANGED <<detection_cache, ncalls>>
    /\ UNCHANGED <<basevars, ivars, avars>>

\* future.result() (lines 195, 254, 304): the caller has the list and the
\* thread is free again.
TakeResult(t) ==
    /\ workers[t].pc = "done"
    /\ workers' = [workers EXCEPT ![t] = IdleWorker]
    /\ UNCHANGED <<detection_cache, cache_access_count, cache_lock, recency, ncalls>>
    /\ UNCHANGED <<basevars, ivars, avars>>

NextDetector ==
    \/ \E t \in Workers :
         /\ workers[t].pc = "idle"
         /\ \E frame \in Frames :
              \E n \in FrameNumbersOf(frame), use_cache \in UseCache :
                 detect_frame(t, frame, n, use_cache)
    \/ \E t \in Workers : CheckCache(t)
    \/ \E t \in Workers : Infer(t)
    \/ \E t \in Workers : AcquireAndEvict(t)
    \/ \E t \in Workers : InsertDetections(t)
    \/ \E t \in Workers : InsertCount(t)
    \/ \E t \in Workers : TakeResult(t)

SpecDetector == Init /\ [][NextDetector]_vars

\* ------------------------------------------------- ImageDetector calls
\* detect_in_video hands the detections of all frames to
\* _get_best_detections (image_detection.py line 97).
Call__get_best_detections(detections) ==
    /\ icall = [fn |-> "none"]
    /\ icall' = [fn |-> "_get_best_detections", detections |-> detections]
    /\ iret' = _get_best_detections(detections)
    /\ UNCHANGED <<basevars, dvars, avars>>

NextImage ==
    /\ icall.fn = "none"
    /\ \E detections \in DetLists(MaxDets) : Call__get_best_detections(detections)

SpecImage == Init /\ [][NextImage]_vars

\* ---------------------------------------------- app.py: the detect API
\* POST /api/detect/video up to the try block (lines 186-191): the
\* validation error leaves the handler as it is raised.
detect_video(file) ==
    /\ areq.pc = "idle"
    /\ nreq < MaxRequests
    /\ nreq' = nreq + 1
    /\ LET v == validate_file(file, ALLOWED_VIDEO_EXTENSIONS)
       IN IF v.ok
          THEN /\ areq' = [IdleRequest EXCEPT !.pc = "save", !.endpoint = "video",
                                              !.file = file]
               /\ response' = NoResponse
          ELSE /\ areq' = [IdleRequest EXCEPT !.pc = "responded", !.endpoint = "video",
                                              !.file = file]
               /\ response' = HTTPException(400, <<v.msg>>)
    /\ UNCHANGED <<files, tasks, stored, scheduled>>
    /\ UNCHANGED <<basevars, dvars, ivars>>

\* POST /api/detect/image up to save_upload_file (lines 284-287): the
\* validation error is raised inside the try block, caught by
\* `except Exception` and answered by lines 358-362.
detect_image(file) ==
    /\ areq.pc = "idle"
    /\ nreq < MaxRequests
    /\ nreq' = nreq + 1
    /\ LET v == validate_file(file, ALLOWED_IMAGE_EXTENSIONS)
       IN IF v.ok
          THEN /\ areq' = [IdleRequest EXCEPT !.pc = "save", !.endpoint = "image",
                                              !.file = file]
               /\ response' = NoResponse
          ELSE /\ areq' = [IdleRequest EXCEPT !.pc = "responded", !.endpoint = "image",
                                              !.file = file]
               /\ response' = HTTPException(500, StrOf(HTTPException(400, <<v.msg>>)))
    /\ UNCHANGED <<files, tasks, stored, scheduled>>
    /\ UNCHANGED <<basevars, dvars, ivars>>

\* save_upload_file (lines 82-99, called at 195 and 289).  When open or
\* the copy fails it raises HTTPException(500), which the handler's except
\* clause answers without a cleanup: filepath is not among its locals.  A
\* failed copy leaves the file it had opened.
save_upload_file(outcome) ==
    /\ areq.pc = "save"
    /\ LET filepath == UploadPath(nreq)
       IN CASE outcome = "ok" ->
                 /\ files' = files \cup {filepath}
                 /\ stored' = stored \cup {filepath}
                 /\ areq' = [areq EXCEPT !.pc = "detect", !.filepath = filepath]
                 /\ UNCHANGED response
            [] outcome = "open_fails" ->
                 /\ areq' = [areq EXCEPT !.pc = "responded"]
                 /\ response' = HTTPException(500, StrOf(HTTPException(500, <<"Could not save file">>)))
                 /\ UNCHANGED <<files, stored>>
            [] outcome = "copy_fails" ->
                 /\ files' = files \cup {filepath}
                 /\ areq' = [areq EXCEPT !.pc = "responded"]
                 /\ response' = HTTPException(500, StrOf(HTTPException(500, <<"Could not save file">>)))
                 /\ UNCHANGED stored
    /\ UNCHANGED <<tasks, scheduled, nreq>>
    /\ UNCHANGED <<basevars, dvars, ivars>>

\* The except clause of lines 273-277 and 358-362 once filepath is bound:
\* cleanup_file is scheduled for the upload and the answer is 500.
ErrorExit ==
    /\ tasks' = Append(tasks, areq.filepath)
    /\ scheduled' = scheduled \cup {areq.filepath}
    /\ response' = HTTPException(500, <<"error">>)
    /\ areq' = [areq EXCEPT !.pc = "responded"]

\* detector.detect_in_video(filepath) (line 198) or
\* detector.detect_in_image(filepath) (line 292).
RunDetector(outcome) ==
    /\ areq.pc = "detect"
    /\ IF outcome = "raises"
       THEN /\ ErrorExit
            /\ UNCHANGED files
       ELSE /\ areq' = [areq EXCEPT
                          !.pc = IF areq.endpoint = "video" THEN "frame" ELSE "routes",
                          !.detections = IF outcome = "one" THEN 1 ELSE 0,
                          !.detector_ran = TRUE]
            /\ UNCHANGED <<files, tasks, scheduled, response>>
    /\ UNCHANGED <<stored, nreq>>
    /\ UNCHANGED <<basevars, dvars, ivars>>

\* detect_video, lines 208-223: when a frame can be read it is written
\* next to the upload and cleanup_file is scheduled for it.
GrabFrame(ret) ==
    /\ areq.pc = "frame"
    /\ IF ret
       THEN /\ files' = files \cup {FramePath(nreq)}
            /\ tasks' = Append(tasks, FramePath(nreq))
            /\ scheduled' = scheduled \cup {FramePath(nreq)}
       ELSE UNCHANGED <<files, tasks, scheduled>>
    /\ areq' = [areq EXCEPT !.pc = "routes"]
    /\ UNCHANGED <<response, stored, nreq>>
    /\ UNCHANGED <<basevars, dvars, ivars>>

\* The rest of the handler.  get_nearest_stations or
\* calculate_optimal_path may raise for a detection (lines 233-257,
\* 309-337).  Without an exception detect_image schedules cleanup_file for
\* the upload (line 340) and detect_video does not (lines 259-271).
BuildRoutes(raises) ==
    /\ areq.pc = "routes"
    /\ raises => areq.detections > 0
    /\ IF raises THEN ErrorExit
       ELSE /\ areq' = [areq EXCEPT !.pc = "responded"]
            /\ response' = JSONResponse
            /\ IF areq.endpoint = "image"
               THEN /\ tasks' = Append(tasks, areq.filepath)
                    /\ scheduled' = scheduled \cup {areq.filepath}
               ELSE UNCHANGED <<tasks, scheduled>>
    /\ UNCHANGED <<files, stored, nreq>>
    /\ UNCHANGED <<basevars, dvars, ivars>>

\* The response has gone out and the handler's frame is dropped.
SendResponse ==
    /\ areq.pc = "responded"
    /\ areq' = IdleRequest
    /\ UNCHANGED <<files, tasks, response, stored, scheduled, nreq>>
    /\ UNCHANGED <<basevars, dvars, ivars>>

\* cleanup_file(filepath) (lines 101-110), run as a background task after
\* the response: an existing file is removed unless os.remove fails, which
\* is logged; nothing is raised.
cleanup_file(remove_ok) ==
    /\ areq.pc = "idle"
    /\ tasks # <<>>
    /\ tasks' = Tail(tasks)
    /\ files' = IF Head(tasks) \in files /\ remove_ok THEN files \ {Head(tasks)} ELSE files
    /\ UNCHANGED <<areq, response, stored, scheduled, nreq>>
    /\ UNCHANGED <<basevars, dvars, ivars>>

\* What the handler and the background tasks do once a request is in.
AppProgress ==
    \/ \E outcome \in {"ok", "open_fails", "copy_fails"} : save_upload_file(outcome)
    \/ \E outcome \in DetectorOutcomes : RunDetector(outcome)
    \/ \E ret \in BOOLEAN : GrabFrame(ret)
    \/ \E raises \in BOOLEAN : BuildRoutes(raises)
    \/ SendResponse
    \/ \E remove_ok \in BOOLEAN : cleanup_file(remove_ok)

NextApp ==
    \/ /\ areq.pc = "idle"
       /\ \E file \in Uploads : detect_video(file)
    \/ /\ areq.pc = "idle"
       /\ \E file \in Uploads : detect_image(file)
    \/ AppProgress

SpecApp == Init /\ [][NextApp]_vars

\* The event loop runs a handler to its end and then its background tasks.
SpecAppFair == SpecApp /\ WF_vars(AppProgress)

\* ================================================================ claims
\* The request of the call that has returned.
ReqType == DictGet(type_map, Lower(args.vehicle_type), "None")
ReqValid == ReqType # "None"
ReqLocations == IF ReqValid THEN emergency_locations[ReqType] ELSE <<>>
Returned == pc = "returned"
ReturnedOk == pc = "returned" /\ result.status = "ok"

\* The route _calculate_route gives for the k-th registered facility of the
\* requested type.
CandidateRoute(k) ==
    _process_location(graph, _get_nearest_node(args.cur), ReqLocations[k],
                     args.traffic_weights)
HasRoute(k) == Len(CandidateRoute(k).route) > 0

\* The total distance of the returned route, measured as lines 87-93 do.
ReturnedDistance == RouteLength(graph, result.route_coords)

\* C1: a successful find_optimal_route returns a facility of the type mapped
\* from the vehicle type, registered under that type, whose route is no
\* longer than the route of any registered facility of that type that has a
\* route.
C1_MinimumDistance ==
    ReturnedOk =>
        /\ ReqValid
        /\ result.location.type = ReqType
        /\ \E k \in DOMAIN ReqLocations : ReqLocations[k] = result.location
        /\ \A k \in DOMAIN ReqLocations :
              HasRoute(k) => ReturnedDistance <= CandidateRoute(k).length

\* C1 witness: a longer candidate finished first and was registered first,
\* and the shorter one was returned.
C1_Witness ==
    /\ ReturnedOk
    /\ Len(futures) >= 2
    /\ first_done = 1
    /\ HasRoute(1)
    /\ CandidateRoute(1).length > ReturnedDistance
    /\ result.location # ReqLocations[1]

\* C3: find_optimal_route has returned only when every future it submitted
\* (one per facility of the requested type) has run to completion.
C3_ReturnsAfterAllTasks ==
    Returned =>
        /\ \A i \in DOMAIN futures : futures[i].status = "done"
        /\ (result.status \in {"ok", "RuntimeError: No valid route found"}
              => Len(futures) = Len(ReqLocations))

\* C3 witness: a call over two or more facilities has returned, the tasks
\* having finished out of submission order.
C3_Witness ==
    /\ Returned
    /\ Len(futures) >= 2
    /\ first_done = 2

\* The least total distance over the candidates that have a route, and the
\* candidates that attain it.
Shortest == { k \in DOMAIN ReqLocations :
                HasRoute(k) /\ \A j \in DOMAIN ReqLocations :
                    HasRoute(j) => CandidateRoute(k).length <= CandidateRoute(j).length }

\* C4: when several candidates tie for the lowest total distance, the one
\* registered first is returned, whatever the order the tasks finished in.
C4_TieFirstRegistered ==
    (ReturnedOk /\ Cardinality(Shortest) >= 2) =>
        result.location = ReqLocations[SetMin(Shortest)]

\* C4 witness: two different facilities tie, the later registered one
\* finished first, and the earlier registered one was returned.
C4_Witness ==
    /\ ReturnedOk
    /\ Cardinality(Shortest) >= 2
    /\ \E k \in Shortest : k # SetMin(Shortest) /\ first_done = k
                           /\ ReqLocations[k] # ReqLocations[SetMin(Shortest)]
    /\ result.location = ReqLocations[SetMin(Shortest)]

\* The multiplier a traffic snapshot gives an edge: the weight of its osmid
\* (of the first listed osmid that has one), 1 when it has none.
SnapshotWeight(e, tw) ==
    LET oid == FirstWeighted(e.osmid.v, tw) IN IF oid # 0 THEN tw.w[oid] ELSE 1

\* The traffic-weighted cost of a hop: the cheapest parallel edge at
\* base travel time times the snapshot's multiplier.
HopTrafficCost(u, v, tw) ==
    SetMin({ e.travel_time * SnapshotWeight(e, tw) :
               e \in { x \in GraphEdges : x.u = u /\ x.v = v } })

RECURSIVE PathTrafficCost(_, _)
PathTrafficCost(p, tw) ==
    IF Len(p) <= 1 THEN 0
    ELSE HopTrafficCost(p[1], p[2], tw) + PathTrafficCost(Tail(p), tw)

\* The traffic-weighted cost of the cheapest route to the k-th candidate.
CandidateTrafficCost(k) ==
    LET s == _get_nearest_node(args.cur)
        t == _get_nearest_node(ReqLocations[k].pos)
    IN SetMin({ PathTrafficCost(p, args.traffic_weights) :
                  p \in { q \in SimplePaths : q[1] = s /\ q[Len(q)] = t } })

\* C2 as stated: with a traffic snapshot supplied, the facility returned is
\* one whose route has the smallest traffic-weighted cost among the
\* candidates that have a route.
C2_MinTrafficCost ==
    (ReturnedOk /\ graph = "timed" /\ TrafficTruthy(args.traffic_weights)) =>
        \E k \in DOMAIN ReqLocations :
            /\ ReqLocations[k] = result.location
            /\ HasRoute(k)
            /\ \A j \in DOMAIN ReqLocations :
                  HasRoute(j) => CandidateTrafficCost(k) <= CandidateTrafficCost(j)

\* C2 amended: with a traffic snapshot supplied, the facility returned is
\* the one whose computed route has the smallest total length, also when
\* another candidate has the smaller traffic-weighted cost.
C2_MinLengthUnderTraffic ==
    (ReturnedOk /\ TrafficTruthy(args.traffic_weights)) =>
        \E k \in DOMAIN ReqLocations :
            /\ ReqLocations[k] = result.location
            /\ HasRoute(k)
            /\ result.route_coords = CandidateRoute(k).route
            /\ \A j \in DOMAIN ReqLocations :
                  HasRoute(j) => CandidateRoute(k).length <= CandidateRoute(j).length

\* C2 witness: under a snapshot, the facility returned has the shorter route
\* and the larger traffic-weighted cost of two candidates.
C2_Witness ==
    /\ ReturnedOk /\ graph = "timed" /\ TrafficTruthy(args.traffic_weights)
    /\ \E k, j \in DOMAIN ReqLocations :
          /\ ReqLocations[k] = result.location
          /\ HasRoute(k) /\ HasRoute(j)
          /\ CandidateRoute(k).length < CandidateRoute(j).length
          /\ CandidateTrafficCost(k) > CandidateTrafficCost(j)

\* C6 as stated: no facility of the mapped type gives the no-facilities
\* error, no search and no route, in every state of the router.
C6_NoFacilitiesAnyState ==
    (Returned /\ ReqValid /\ ReqLocations = <<>>) =>
        /\ result.status = "ValueError: No locations available"
        /\ futures = <<>>
        /\ result.route_coords = <<>>

\* C6 amended: with no facility of the mapped type the call starts no
\* search and returns no route; when a graph is loaded the error raised is
\* the no-facilities error (without a graph it is the graph error).
C6_NoFacilities ==
    (Returned /\ ReqValid /\ ReqLocations = <<>>) =>
        /\ futures = <<>>
        /\ result.route_coords = <<>>
        /\ result.location = NoLocation
        /\ result.status # "ok"
        /\ (GraphTruthy(graph) => result.status = "ValueError: No locations available")

\* C6 witness: a graph is loaded, other types have facilities, the mapped
\* type has none, and the call raised the no-facilities error.
C6_Witness ==
    /\ Returned /\ ReqValid /\ ReqLocations = <<>>
    /\ GraphTruthy(graph)
    /\ accepted # <<>>
    /\ result.status = "ValueError: No locations available"

\* C7: with a valid vehicle type, a graph loaded and a facility of the
\* matching type registered, the call returns a route.
C7_AlwaysSomeRoute ==
    (Returned /\ GraphTruthy(graph) /\ ReqValid /\ ReqLocations # <<>>) =>
        result.status = "ok" /\ Len(result.route_coords) > 0

\* C9: without a graph the call raises the graph-not-loaded error, starts
\* no search and returns no route; after a successful load_area_boundary
\* the call never raises that error.
C9_GraphNotLoaded ==
    Returned =>
        /\ graph = "None" =>
              /\ result.status = "RuntimeError: No graph loaded"
              /\ result.route_coords = <<>>
              /\ result.location = NoLocation
              /\ futures = <<>>
        /\ load_succeeded => result.status # "RuntimeError: No graph loaded"

\* C9 witness: a call for a valid type with facilities
\* registered raised the graph error because nothing was loaded.
C9_Witness ==
    /\ Returned /\ graph = "None"
    /\ ReqValid /\ ReqLocations # <<>>
    /\ result.status = "RuntimeError: No graph loaded"

\* The accepted registrations of one type, in order.
AcceptedOf(t) == SelectSeq(accepted, LAMBDA l : l.type = t)

RegistryMatchesHistory ==
    /\ DOMAIN emergency_locations = LocationTypes
    /\ \A t \in LocationTypes : emergency_locations[t] = AcceptedOf(t)

RegistrationStep ==
    \A location \in Catalog :
        add_emergency_location(location) =>
            IF location.type \in LocationTypes
            THEN /\ last_error' = ""
                 /\ emergency_locations' =
                      [emergency_locations EXCEPT
                         ![location.type] = Append(@, location)]
            ELSE /\ last_error' = "ValueError: Invalid location type"
                 /\ emergency_locations' = emergency_locations

\* C10: add_emergency_location raises ValueError and changes no list for a
\* type that is not hospital, fire_station or police_station, and otherwise
\* appends to the list of the location's own type only; every list holds
\* the accepted locations of its type in insertion order.
C10_Registration == []RegistryMatchesHistory /\ [][RegistrationStep]_vars

\* C10 witness: two hospitals and a rejected school: the lists hold the
\* accepted ones in order.
C10_Witness ==
    /\ Len(emergency_locations["hospital"]) >= 2
    /\ emergency_locations["hospital"][1] # emergency_locations["hospital"][2]
    /\ last_error = "ValueError: Invalid location type"

\* C5: the router maps ambulance, fire_engine and police through the fixed
\* table and fails with an invalid-vehicle-type error for every other
\* value: no search towards a default destination is started for it and no
\* route is returned.
C5_NoSilentDefault ==
    (gpc # "idle" /\ gargs.vehicle_type \notin DOMAIN type_map) =>
        /\ gpc = "done"
        /\ gresult.status = "InvalidVehicleType"
        /\ gresult.path = <<>>

\* C8: a search that ends without reaching the goal (its budget used up)
\* returns the degraded two-point path from start to goal, not an empty
\* path.
C8_DegradedOnExhaustion ==
    (gpc = "done" /\ gresult.outcome # "GOAL_REACHED") =>
        gresult.path = <<GridStart, goal>>

\* A step of a find_optimal_route call: its entry, a step of one of its
\* tasks, a step of its collecting loop, or its return.
RouteCallStep == pc' \in {"collecting", "returned"}

\* The traffic-weight map supplied at the entry of the call is the same
\* after every later step of the call.
SuppliedWeightsKept ==
    pc = "collecting" => args'.traffic_weights = args.traffic_weights

\* C11: a call of find_optimal_route, with or without traffic weights,
\* leaves the graph (and with it every edge's travel_time and length), the
\* supplied traffic-weight map and the facility registry unchanged in
\* every one of its steps.
C11_FrameEffect ==
    [][RouteCallStep =>
         /\ graph' = graph
         /\ emergency_locations' = emergency_locations
         /\ accepted' = accepted
         /\ SuppliedWeightsKept]_vars

\* C11 witness: a call under a traffic snapshot has run its searches on
\* the graph with travel times and returned a route, two facilities being
\* registered.
C11_Witness ==
    /\ ReturnedOk
    /\ graph = "timed"
    /\ TrafficTruthy(args.traffic_weights)
    /\ Len(accepted) = 2
    /\ \A i \in DOMAIN futures : futures[i].status = "done"

\* The facility a call with the given inputs settles on when its searches
\* are run one after another in registration order: the index in `locs`
\* of the first facility with the strictly shortest route, 0 when no
\* facility has a route.
RECURSIVE SequentialBest(_, _, _, _, _)
SequentialBest(g, s, locs, tw, k) ==
    IF k = 0 THEN [k |-> 0, length |-> 0]
    ELSE LET b == SequentialBest(g, s, locs, tw, k - 1)
             r == _process_location(g, s, locs[k], tw)
         IN IF Len(r.route) > 0 /\ (b.k = 0 \/ r.length < b.length)
            THEN [k |-> k, length |-> r.length]
            ELSE b

\* What a call returns as a function of its inputs alone: the graph, the
\* registry and the arguments.
ResultOf(g, registry, a) ==
    LET err == EntryError(g, registry, a.vehicle_type)
    IN IF err # "" THEN Raised(err)
       ELSE LET locs == registry[type_map[Lower(a.vehicle_type)]]
                s == _get_nearest_node(a.cur)
                b == SequentialBest(g, s, locs, a.traffic_weights, Len(locs))
            IN IF b.k = 0 THEN Raised("RuntimeError: No valid route found")
               ELSE [status |-> "ok",
                     route_coords |-> _process_location(g, s, locs[b.k], a.traffic_weights).route,
                     location |-> locs[b.k]]

\* C13: what a call returns (route and facility, or the error) is a
\* function of its inputs: calls with the same current coordinate, vehicle
\* type, traffic snapshot, graph and registry return the same, in whatever
\* order the worker threads start and finish.
C13_Deterministic == Returned => result = ResultOf(graph, emergency_locations, args)

\* C13 witness: two different facilities with routes of different length;
\* the task of the second one started and finished first, and the call
\* returned what the inputs determine.
C13_Witness ==
    /\ ReturnedOk
    /\ Len(futures) = 2
    /\ first_done = 2
    /\ HasRoute(1) /\ HasRoute(2)
    /\ CandidateRoute(1).length # CandidateRoute(2).length
    /\ result = ResultOf(graph, emergency_locations, args)

\* The pairs of nodes joined by an edge.
AdjacentPairs == { <<e.u, e.v>> : e \in GraphEdges }

\* C14: on the graph with travel times, the cost the search of a call uses
\* for a hop is the base travel time of its edge multiplied by the
\* snapshot's weight for the edge's identifier (1 when the snapshot has no
\* entry), and the base travel time when the call has no snapshot or an
\* empty one.
C14_EdgeCost ==
    (pc # "idle" /\ graph = "timed" /\ result.status \in {"none", "ok"}) =>
        \A uv \in AdjacentPairs :
            nx_edge_weight(graph, WeightArg(args.traffic_weights), uv[1], uv[2])
              = HopTrafficCost(uv[1], uv[2], args.traffic_weights)

\* C15: the first point of a returned route is exactly the current
\* coordinate of the request and its last point is exactly the location
\* of the returned facility.
C15_RouteEndpoints ==
    ReturnedOk =>
        /\ result.route_coords[1] = args.cur
        /\ result.route_coords[Len(result.route_coords)] = result.location.pos

\* C20 as stated: a call with an unrecognized vehicle type raises the
\* invalid-vehicle-type error in every state of the router, also with no
\* graph loaded and with an empty registry.
C20_InvalidTypeAnyState ==
    (Returned /\ ~ReqValid) => result.status = "ValueError: Invalid vehicle type"

\* C20 amended: a call with an unrecognized vehicle type starts no search
\* and returns no route; when a graph is loaded it raises the
\* invalid-vehicle-type error, also with an empty registry (the
\* no-facilities error never masks it); without a graph it raises the
\* graph-not-loaded error.
C20_InvalidType ==
    (Returned /\ ~ReqValid) =>
        /\ futures = <<>>
        /\ result.route_coords = <<>>
        /\ result.location = NoLocation
        /\ result.status = IF GraphTruthy(graph)
                           THEN "ValueError: Invalid vehicle type"
                           ELSE "RuntimeError: No graph loaded"

\* C20 witness: a graph is loaded, nothing is registered, and the call with
\* an unrecognized type raised the invalid-vehicle-type error.
C20_Witness ==
    /\ Returned /\ ~ReqValid
    /\ GraphTruthy(graph)
    /\ \A t \in LocationTypes : emergency_locations[t] = <<>>
    /\ result.status = "ValueError: Invalid vehicle type"

\* C17: every search reaches a terminal outcome within the maximum
\* iteration count, which the design fixes at 100 for the grid router.
C17_IterationBudget == iterations <= 100

\* The call of utils/location.py that has returned.
Called(fn) == lcall.fn = fn

\* C16: get_nearest_stations returns the stations of the requested type
\* sorted ascending by distance from the location (so the first one is at
\* the least distance), the same list for the same location and type.
C16_NearestSorted ==
    Called("get_nearest_stations") =>
        LET relevant == DictGet(stations, Upper(lcall.emergency_type), <<>>)
        IN /\ Len(lret) = Len(relevant)
           /\ { lret[i].id : i \in DOMAIN lret } = { relevant[i].id : i \in DOMAIN relevant }
           /\ \A i \in DOMAIN lret :
                 lret[i].distance = calculate_distance(lcall.location, <<lret[i].lat, lret[i].lng>>)
           /\ \A i, j \in DOMAIN lret : i < j => lret[i].distance <= lret[j].distance

\* C18: the density get_path_traffic_density returns lies in [0, 100] for
\* every pair of points and every value of the random variation.
C18_DensityInRange ==
    Called("get_path_traffic_density") => (0 <= lret /\ lret <= 100)

\* C18 witness: the density computed was above 100 and 100 was returned.
C18_Witness ==
    /\ Called("get_path_traffic_density")
    /\ RawDensity(lcall.start, lcall.end, lcall.random_factor) > 100
    /\ lcall.start # lcall.end
    /\ lret = 100

\* C19: calculate_distance gives the same distance for (a, b) and (b, a),
\* and 0 for (a, a).
C19_SymmetricZero ==
    Called("calculate_distance") =>
        /\ lret = calculate_distance(lcall.point2, lcall.point1)
        /\ (lcall.point1 = lcall.point2 => lret = 0)

\* C19 witness: a distance between two points that differ in latitude and
\* in longitude, the latitudes having different cosines.
C19_Witness ==
    /\ Called("calculate_distance")
    /\ Cos2(lcall.point1[1]) # Cos2(lcall.point2[1])
    /\ lcall.point1[2] # lcall.point2[2]
    /\ lret > 0

\* C12: whatever the interleaving of the concurrent calls, every call
\* returns what its own inputs determine (the result it returns when the
\* calls run one after another): no call works with another call's
\* traffic weights.
C12_NoInterference ==
    \A c \in Callers :
        calls[c].pc = "returned" =>
            calls[c].result = ResultOf(graph, emergency_locations, calls[c].args)

\* C12 witness: two calls with different snapshots ran their tasks while
\* the other one was in progress, and each returned its own route, the two
\* routes being different.
C12_Witness ==
    /\ \A c \in Callers :
          /\ calls[c].pc = "returned"
          /\ calls[c].result.status = "ok"
          /\ calls[c].overlapped
    /\ \E c, d \in Callers :
          /\ TrafficTruthy(calls[c].args.traffic_weights)
          /\ ~TrafficTruthy(calls[d].args.traffic_weights)
          /\ calls[c].result.route_coords # calls[d].result.route_coords

\* The cells of the grid a walk of 4-neighbour steps over free cells
\* reaches from the cells in `seen`.
RECURSIVE ReachableFrom(_, _)
ReachableFrom(seen, grid) ==
    LET more == { c \in Cells(grid.h, grid.w) \ (seen \cup grid.blocked) :
                    \E s \in seen : heuristic2(s, c) = 1 }
    IN IF more = {} THEN seen ELSE ReachableFrom(seen \cup more, grid)

GoalReachable == goal \in ReachableFrom({GridStart}, gargs.grid)

GridDone == gpc = "done"
GoalReached == gpc = "done" /\ gresult.outcome = "GOAL_REACHED"

\* C21: the path astar returns on reaching the goal starts at start, ends
\* at goal, holds start once, moves by one 4-neighbour step inside the
\* grid between consecutive cells and enters no blocked cell after the
\* start; when the goal is unreachable the path is empty.
C21_PathShape ==
    /\ GoalReached =>
          LET path == gresult.path
          IN /\ Len(path) >= 1
             /\ path[1] = GridStart
             /\ path[Len(path)] = goal
             /\ Cardinality({ i \in DOMAIN path : path[i] = GridStart }) = 1
             /\ \A i \in DOMAIN path :
                   /\ path[i] \in Cells(gargs.grid.h, gargs.grid.w)
                   /\ i > 1 => /\ heuristic2(path[i - 1], path[i]) = 1
                               /\ path[i] \notin gargs.grid.blocked
    /\ (GridDone /\ ~GoalReachable) => gresult.path = <<>>

\* C21 witness: a box lies on the frame and the goal was reached by a path
\* of four or more cells that leaves the first row before the goal's
\* column.
C21_Witness ==
    /\ GoalReached
    /\ gargs.grid.blocked # {}
    /\ Len(gresult.path) >= 4
    /\ \E i \in DOMAIN gresult.path :
          gresult.path[i][1] # GridStart[1] /\ gresult.path[i][2] # goal[2]

\* The number of steps of a shortest walk over free cells from the start
\* to `target`, `seen` being the cells within k steps of the start; -1 when
\* no walk reaches it.
RECURSIVE StepsTo(_, _, _, _)
StepsTo(seen, k, target, grid) ==
    LET more == { c \in Cells(grid.h, grid.w) \ (seen \cup grid.blocked) :
                    \E s \in seen : heuristic2(s, c) = 1 }
    IN IF target \in seen THEN k
       ELSE IF more = {} THEN 0 - 1
       ELSE StepsTo(seen \cup more, k + 1, target, grid)

\* The path returned has as many steps as a shortest path.
PathOptimal ==
    GoalReached =>
        Len(gresult.path) - 1 = StepsTo({GridStart}, 0, goal, gargs.grid)

\* In a step of the search a recorded g score is kept or lowered, and a
\* cell whose g score is new or lowered is put on the queue with it, its
\* parent being one step closer to the start.
ScoresStep ==
    /\ \A n \in DOMAIN g_score :
          n \in DOMAIN g_score' /\ g_score'[n] <= g_score[n]
    /\ \A n \in DOMAIN g_score' :
          (n \notin DOMAIN g_score \/ g_score'[n] < g_score[n]) =>
              \/ n = GridStart /\ g_score'[n] = 0
              \/ /\ \E e \in open_set' : e.node = n /\ e.f.g = g_score'[n]
                 /\ n \in DOMAIN came_from'
                 /\ g_score'[n] = g_score'[came_from'[n]] + 1

\* C22: a neighbour is inserted or updated only when it is unseen or the
\* tentative cost is strictly lower than its recorded g, so no recorded g
\* ever increases during a search; and the path returned has the number of
\* steps of a shortest 4-connected path over free cells from start to
\* goal.
C22_Optimal == []PathOptimal /\ [][ScoresStep]_vars

\* C22 witness: boxes lie between start and goal, and the path returned
\* goes around them: it is a shortest one and has more steps than the
\* goal's row and column are away from the start.
C22_Witness ==
    /\ GoalReached
    /\ gargs.grid.blocked # {}
    /\ Len(gresult.path) - 1 = StepsTo({GridStart}, 0, goal, gargs.grid)
    /\ Len(gresult.path) - 1 > goal[1] + goal[2]


\* A candidate produced a route: its future holds a non-empty node list.
Produced(i) == Len(futures[i].route) > 0

\* Collecting the result of a candidate that has no route leaves the best
\* route, its length and its facility as they were.
FailedCandidateSkipped ==
    (pc = "collecting" /\ fi \in DOMAIN futures /\ fi' = fi + 1 /\ ~Produced(fi))
        => best' = best

\* A call that got past the entry checks raises 'No valid route found' when
\* no candidate produced a route and returns a route otherwise.
FailsOnlyWithoutRoute ==
    (Returned /\ futures # <<>>) =>
        /\ result.status \in {"ok", "RuntimeError: No valid route found"}
        /\ result.status = "RuntimeError: No valid route found"
              <=> \A i \in DOMAIN futures : ~Produced(i)
        /\ \A i \in DOMAIN futures :
              Produced(i) <=> HasRoute(i)

\* C23: a candidate for which _calculate_route finds no path yields no route
\* for that candidate only: collecting it never changes the best candidate,
\* the call returns a route whenever another candidate has one, and it
\* raises 'No valid route found' exactly when no candidate produced a route.
C23_FailedCandidate == []FailsOnlyWithoutRoute /\ [][FailedCandidateSkipped]_vars

\* C23 witness: two candidates, the first with a route and the second
\* without one; the call returned the first one's facility.
C23_Witness ==
    /\ ReturnedOk
    /\ Len(futures) = 2
    /\ Produced(1) /\ ~Produced(2)
    /\ result.location = futures[1].loc

\* The lock of the cache is held by no thread.
LockFree == cache_lock = 0

\* C24: whenever the cache lock is free, detection_cache and
\* cache_access_count have the same keys, every access count is at least 1
\* and the cache holds at most max_cache_size entries.
C24_CacheConsistent ==
    LockFree =>
        /\ DOMAIN detection_cache = DictKeys(cache_access_count)
        /\ \A i \in DOMAIN cache_access_count : cache_access_count[i].count >= 1
        /\ \A i, j \in DOMAIN cache_access_count :
              cache_access_count[i].key = cache_access_count[j].key => i = j
        /\ Cardinality(DOMAIN detection_cache) <= max_cache_size

\* C24 witness: the lock is free, the cache is full, a thread has just
\* stored a result for which an entry was evicted, and another thread is
\* inside detect_frame on its way to store a result.
C24_Witness ==
    /\ LockFree
    /\ Cardinality(DOMAIN detection_cache) = max_cache_size
    /\ \E t \in Workers : workers[t].pc = "done" /\ workers[t].lru_key # <<>>
    /\ \E t \in Workers : workers[t].pc \in {"infer", "store"}

\* C25: the entry evicted when a new result is stored in a full cache is
\* the least recently used one, the one whose last access is the oldest.
C25_EvictsLeastRecentlyUsed ==
    \A t \in Workers :
        (/\ workers[t].pc = "insert"
         /\ workers[t].lru_key # <<>>
         /\ workers[t].cache_key # workers[t].lru_key
         /\ workers[t].cache_key \notin DOMAIN detection_cache)
            => workers[t].lru_key = Head(recency)

\* C26: every Detection detect_frame(frame, frame_number = n) returns
\* carries the frame number n.
C26_FrameNumberOfCall ==
    \A t \in Workers :
        workers[t].pc = "done" =>
            \A i \in DOMAIN workers[t].ret :
                workers[t].ret[i].frame_number = workers[t].frame_number

\* _get_best_detections has returned.
BestCalled == icall.fn = "_get_best_detections"

\* The class names of a list of detections.
ClassNames(detections) == { detections[i].class_name : i \in DOMAIN detections }

\* C27: _get_best_detections returns exactly one detection for every class
\* name present in its input and none for any other class, and the one
\* returned is a detection of the input with the highest confidence of its
\* class.
C27_BestPerClass ==
    BestCalled =>
        /\ ClassNames(iret) = ClassNames(icall.detections)
        /\ \A i, j \in DOMAIN iret : iret[i].class_name = iret[j].class_name => i = j
        /\ \A i \in DOMAIN iret :
              /\ \E k \in DOMAIN icall.detections : icall.detections[k] = iret[i]
              /\ \A k \in DOMAIN icall.detections :
                    icall.detections[k].class_name = iret[i].class_name
                        => icall.detections[k].confidence <= iret[i].confidence

\* C27 witness: three detections of two classes, the better detection of
\* the class met twice coming second; two detections are returned.
C27_Witness ==
    /\ BestCalled
    /\ Len(icall.detections) = 3
    /\ Len(iret) = 2
    /\ \E i, j \in DOMAIN icall.detections :
          /\ i < j
          /\ icall.detections[i].class_name = icall.detections[j].class_name
          /\ icall.detections[i].confidence < icall.detections[j].confidence
          /\ \E k \in DOMAIN iret : iret[k] = icall.detections[j]

\* The handler has answered the request.
Responded == areq.pc = "responded"

\* The upload of the request was rejected by validate_file.
Rejected ==
    ~validate_file(areq.file,
                   IF areq.endpoint = "video" THEN ALLOWED_VIDEO_EXTENSIONS
                   ELSE ALLOWED_IMAGE_EXTENSIONS).ok

\* C28: on /api/detect/video and /api/detect/image a rejected upload is
\* answered with HTTP 400 carrying the validation message, no file is
\* saved and no detection is run.
C28_RejectedUpload ==
    (Responded /\ Rejected) =>
        /\ response.status_code = 400
        /\ response.detail =
              << validate_file(areq.file,
                               IF areq.endpoint = "video" THEN ALLOWED_VIDEO_EXTENSIONS
                               ELSE ALLOWED_IMAGE_EXTENSIONS).msg >>
        /\ UploadPath(nreq) \notin files
        /\ ~areq.detector_ran

\* C29: every file save_upload_file has stored during a detect request is
\* eventually scheduled for deletion with cleanup_file.
C29_EventuallyScheduled ==
    \A n \in 1..MaxRequests :
        (UploadPath(n) \in stored) ~> (UploadPath(n) \in scheduled)
====
